---- MODULE Spec2Model ----
(***************************************************************************)
(* Change-detection pipeline of ToS Monitor: run_full_scan / check_service *)
(* (app/scraper/scheduler.py), the tier table (app/tiers.py), the alert    *)
(* dispatcher send_alerts_for_changes (app/services/alerts.py), the        *)
(* fetcher, differ and classifier (app/scraper/fetcher.py, differ.py,      *)
(* summarizer.py), the change-feed export (app/services/sales_bridge.py)   *)
(* and the admin endpoints of app/main.py.                                 *)
(*                                                                         *)
(* Every coroutine is cut at its awaits: the code between two awaits runs  *)
(* without interleaving on the asyncio loop and is one action.  A database *)
(* session is a PostgreSQL READ COMMITTED transaction: its writes are kept *)
(* in sess[p] and reach the committed tables only at commit; now(), the    *)
(* server default of Snapshot.fetched_at, is the start time of the         *)
(* transaction.                                                            *)
(***************************************************************************)
EXTENDS Integers, Sequences, FiniteSets, TLC

\* Number of run_full_scan invocations the interval timer starts, and the
\* number started through the manual trigger.
MaxTimerScans == 2

MaxManualScans == 1

\* Number of injected failures (storage errors, exceptions inside the
\* per-document block) in one run.
MaxFaults == 1

MaxScans(p) == IF p = "timer" THEN MaxTimerScans ELSE MaxManualScans

\* The two callers of run_full_scan: the APScheduler job and POST /api/admin/scan.
Procs == {"timer", "manual"}

NoUrl == "None"

\* ---------------------------------------------------------------------------
\* Monitored services (rows of the services table; the scan never edits them
\* except last_checked_at).
Services == {"s1", "s2", "s3"}

\* s1 tracks two documents; s2 tracks only a privacy page, the one s1 tracks
\* too (seed.py: google-cloud and firebase share policies.google.com/privacy);
\* s3 has neither URL (both columns are nullable, models.py 102-103).
tos_url(s) == IF s = "s1" THEN "u1" ELSE NoUrl

privacy_url(s) == IF s = "s3" THEN NoUrl ELSE "u2"

\* Service.is_active of the rows unless a specification says otherwise: the
\* row without URLs is inactive and the scans leave it out.
SeededActive == [s \in Services |-> s # "s3"]

\* ---------------------------------------------------------------------------
\* Accounts, plans and the tier table (app/tiers.py).
Users == {"alice", "bob"}

Plans == {"free", "pro", "business"}

\* The tier table with real-time alerts granted to FREE.
PLAN_LIMITS_FreeRealtime(plan) ==
    CASE plan = "free" -> [realtime_alerts |-> TRUE, can_webhook |-> FALSE]
      [] plan = "pro" -> [realtime_alerts |-> TRUE, can_webhook |-> FALSE]
      [] plan = "business" -> [realtime_alerts |-> TRUE, can_webhook |-> TRUE]

PLAN_LIMITS(plan) ==
    CASE plan = "free" -> [realtime_alerts |-> FALSE, can_webhook |-> FALSE]
      [] plan = "pro" -> [realtime_alerts |-> TRUE, can_webhook |-> FALSE]
      [] plan = "business" -> [realtime_alerts |-> TRUE, can_webhook |-> TRUE]

get_limits(plan) ==
    IF plan \in Plans THEN PLAN_LIMITS(plan) ELSE PLAN_LIMITS("free")

Urls == {"u1", "u2"}

\* ---------------------------------------------------------------------------
\* Texts are sequences of elements: single characters ("a", "b", " "), each of
\* length 1, and blocks, each standing for a run of characters found nowhere
\* else.  A page text is <<body, stamp>>: a long body followed by a short
\* trailing stamp (a rendered date).
\* "F1" is the FAKE_OLD text of the demo data (main.py 335-340) and "F2" the
\* "UPDATED ..." line appended to it.  With these lengths the similarity of <<"B1","S1">> to <<"B1","S3">> is
\* 1990/1997 (above 0.995), to <<"B1","S2">> exactly 1990/2000 = 0.995, and
\* that of <<"B1","S3">> to <<"B1","S2">> is 1990/2003 (below 0.995).
BlockLen(b) ==
    CASE b = "B1" -> 995
      [] b = "S1" -> 2
      [] b = "S2" -> 8
      [] b = "S3" -> 5
      [] b = "F1" -> 10900
      [] b = "F2" -> 70
      [] OTHER -> 1

EmptyText == <<>>

\* The texts a page may serve when it is fetched: the terms page u1 never
\* changes; the privacy page u2 does.
PageTexts(u) ==
    IF u = "u2"
    THEN {<<"B1", "S1">>, <<"B1", "S2">>, <<"B1", "S3">>}
    ELSE {<<"B1", "S1">>}

\* Number of characters of the elements t[i..j].
RECURSIVE SpanLen(_, _, _)
SpanLen(t, i, j) == IF i > j THEN 0 ELSE BlockLen(t[i]) + SpanLen(t, i + 1, j)

TextLen(t) == SpanLen(t, 1, Len(t))

\* hashlib.sha256(content.encode()).hexdigest(): injective on the texts.
Sha256(t) == <<"sha256">> \o t

\* difflib.SequenceMatcher(None, a, b): the common run that starts at a[i] and
\* b[j] and stays within a[..ahi], b[..bhi], in elements.
RECURSIVE RunFrom(_, _, _, _, _, _)
RunFrom(a, b, i, j, ahi, bhi) ==
    IF i <= ahi /\ j <= bhi /\ a[i] = b[j]
    THEN 1 + RunFrom(a, b, i + 1, j + 1, ahi, bhi)
    ELSE 0

\* find_longest_match over a[alo..ahi], b[blo..bhi]: the starts of the
\* longest common run; of several, the one earliest in a, and of those the
\* one earliest in b.  (No element is junk: isjunk is None, and the automatic
\* junk heuristic needs 200 elements.)
LongestMatch(a, b, alo, ahi, blo, bhi) ==
    LET starts == {c \in (alo..ahi) \X (blo..bhi) : a[c[1]] = b[c[2]]}
        size(c) == SpanLen(a, c[1], c[1] + RunFrom(a, b, c[1], c[2], ahi, bhi) - 1)
    IN {c \in starts :
          \A d \in starts :
             \/ size(c) > size(d)
             \/ /\ size(c) = size(d)
                /\ \/ c[1] < d[1]
                   \/ c[1] = d[1] /\ c[2] <= d[2]}

\* get_matching_blocks: the longest match, then the same to its left and to
\* its right; the number of characters matched in all.
RECURSIVE MatchedIn(_, _, _, _, _, _)
MatchedIn(a, b, alo, ahi, blo, bhi) ==
    LET found == LongestMatch(a, b, alo, ahi, blo, bhi)
    IN IF found = {} THEN 0
       ELSE LET c == CHOOSE x \in found : TRUE
                k == RunFrom(a, b, c[1], c[2], ahi, bhi)
            IN SpanLen(a, c[1], c[1] + k - 1)
               + MatchedIn(a, b, alo, c[1] - 1, blo, c[2] - 1)
               + MatchedIn(a, b, c[1] + k, ahi, c[2] + k, bhi)

\* ratio() = 2*M/T, kept as <<2*M, T>>; M is the size of the matching blocks.
MatchSize(a, b) == MatchedIn(a, b, 1, Len(a), 1, Len(b))

\* ratio() is 1.0 when both sequences are empty.
SimilarityRatio(a, b) ==
    IF TextLen(a) + TextLen(b) = 0 THEN <<1, 1>>
    ELSE <<2 * MatchSize(a, b), TextLen(a) + TextLen(b)>>

\* str.split(): the maximal runs of non-blank elements, in order.
RECURSIVE SplitFrom(_, _, _)
SplitFrom(t, word, acc) ==
    IF t = <<>> THEN (IF word = <<>> THEN acc ELSE Append(acc, word))
    ELSE IF Head(t) = " "
    THEN SplitFrom(Tail(t), <<>>, IF word = <<>> THEN acc ELSE Append(acc, word))
    ELSE SplitFrom(Tail(t), Append(word, Head(t)), acc)

Split(t) == SplitFrom(t, <<>>, <<>>)

\* set(text.split())
WordSet(t) == {Split(t)[i] : i \in 1..Len(Split(t))}

\* str.strip()
RECURSIVE Strip(_)
Strip(t) ==
    IF t = <<>> THEN t
    ELSE IF Head(t) = " " THEN Strip(Tail(t))
    ELSE IF t[Len(t)] = " " THEN Strip(SubSeq(t, 1, Len(t) - 1))
    ELSE t

\* _parse_diff_sections and _make_section for texts of one line: the unified
\* diff is a single hunk, "-old" then "+new" (no "-" line for an empty old
\* text, no "+" line for an empty new one); lines that strip to nothing are
\* dropped.
DiffSections(a, b) ==
    LET removed == Strip(a)
        added == Strip(b)
    IN IF removed = <<>> /\ added = <<>> THEN <<>>
       ELSE <<[old_text |-> removed, new_text |-> added,
               change_type |-> IF added = <<>> THEN "removed"
                               ELSE IF removed = <<>> THEN "added"
                               ELSE "modified"]>>

\* A word count by length of the word lists.
WordsOnlyIn_ByCount(a, b) ==
    IF Len(Split(a)) > Len(Split(b)) THEN Len(Split(a)) - Len(Split(b)) ELSE 0

\* Lines 69-72: len(set(a.split()) - set(b.split())).
WordsOnlyIn(a, b) == Cardinality(WordSet(a) \ WordSet(b))

\* A compute_diff that reports a change for identical texts too.
compute_diff_NoShortcut(a, b) ==
    [has_changes |-> TRUE,
     sections |-> DiffSections(a, b),
     words_added |-> WordsOnlyIn(b, a),
     words_removed |-> WordsOnlyIn(a, b),
     sections_changed |-> Len(DiffSections(a, b)),
     similarity_ratio |-> SimilarityRatio(a, b)]

\* compute_diff (diff_html left out): identical texts short-circuit to the
\* default DiffResult, "no changes", ratio 1.0.
compute_diff(a, b) ==
    IF a = b
    THEN [has_changes |-> FALSE,
          sections |-> <<>>,
          words_added |-> 0,
          words_removed |-> 0,
          sections_changed |-> 0,
          similarity_ratio |-> <<1, 1>>]
    ELSE [has_changes |-> TRUE,
          sections |-> DiffSections(a, b),
          words_added |-> WordsOnlyIn(b, a),
          words_removed |-> WordsOnlyIn(a, b),
          sections_changed |-> Len(DiffSections(a, b)),
          similarity_ratio |-> SimilarityRatio(a, b)]

\* The gate with >= in place of >.
IsTrivial_AtLeast(ratio) == ratio[1] * 1000 >= 995 * ratio[2]

\* diff.similarity_ratio > 0.995
IsTrivial(ratio) == ratio[1] * 1000 > 995 * ratio[2]

\* ---------------------------------------------------------------------------
\* Classifier (app/scraper/summarizer.py).  What the provider call does:
\*   kind "json"           - the reply parses as a JSON object; each of its
\*                           keys "severity", "title", "summary" holds a
\*                           string, is absent ("missing") or is null;
\*   "timeout", "provider_error", "not_json" - the call raises;
\*   "no_provider"         - no API key is configured.
SeverityVocabulary == {"critical", "major", "minor", "patch"}

ClassifierResponses ==
    [kind : {"json"},
     severity : SeverityVocabulary \cup {"MAJOR", "urgent", "missing", "null"},
     title : {"Terms rewritten", "missing", "null"},
     summary : {"Section 4 changed", "missing", "null"}]
    \cup
    [kind : {"timeout", "provider_error", "not_json", "no_provider"},
     severity : {"missing"}, title : {"missing"}, summary : {"missing"}]

\* The two outcomes the scan specifications run with: a well-formed reply and
\* a failed call.
ClassifierOutcomes ==
    {[kind |-> "json", severity |-> "major", title |-> "Terms rewritten",
      summary |-> "Section 4 changed"],
     [kind |-> "timeout", severity |-> "missing", title |-> "missing",
      summary |-> "missing"]}

\* str.lower() on the severity values above.
Lower(v) == IF v = "MAJOR" THEN "major" ELSE v

\* _fallback_summary (lines 145-151).
fallback_summary(service_name) ==
    [title |-> IF service_name = "s1" THEN "s1 policy updated"
               ELSE "s2 policy updated",
     summary |-> IF service_name = "s1"
                 THEN "A change was detected in s1's policy."
                 ELSE "A change was detected in s2's policy.",
     severity |-> "minor",
     fallback |-> TRUE]

\* _normalize_result (lines 128-142).  A null under "summary" is returned as
\* it is (None).
normalize_result(r) ==
    [title |-> IF r.title = "missing" THEN "Policy change detected" ELSE r.title,
     summary |-> IF r.summary = "missing"
                 THEN "A change was detected in the policy document."
                 ELSE r.summary,
     severity |-> IF r.severity = "missing" THEN "minor"
                  ELSE IF Lower(r.severity) \in SeverityVocabulary
                  THEN Lower(r.severity)
                  ELSE "minor",
     fallback |-> FALSE]

\* summarize_change (lines 64-73): the fallback when no provider is
\* configured and when anything in the try block raises: the call itself,
\* json.loads, or _normalize_result on a null title (None[:500]) or a null
\* severity (None.lower()).
summarize_change(service_name, r) ==
    IF r.kind # "json" \/ r.title = "null" \/ r.severity = "null"
    THEN fallback_summary(service_name)
    ELSE normalize_result(r)

\* models.py lines 164-165: Change.title and Change.summary are NOT NULL.
Storable(change) == change.title # "null" /\ change.summary # "null"

\* ---------------------------------------------------------------------------
VARIABLES
    clock,            \* wall clock (strictly increasing at each reading)
    scanCount,        \* per caller: run_full_scan invocations started so far
    snapshots,        \* committed rows of the snapshots table
    changes,          \* committed rows of the changes table
    last_checked_at,  \* committed Service.last_checked_at (0 = NULL)
    pc,               \* per caller: the await the coroutine is suspended at
    scanId,           \* per caller: number of its current scan
    services,         \* per caller: the rest of the worklist, current first
    urls_to_check,    \* per caller: the rest of urls_to_check, current first
    result,           \* per caller: result of fetch_page
    fetched,          \* per caller: outcomes of the fetches of this check_service call
    prev_snapshot,    \* per caller: {} (None) or {row}
    new_snapshot,     \* per caller: {} or {row}
    diff,             \* per caller: {} (compute_diff not called) or {DiffResult}
    summary,          \* per caller: {} (classifier not called) or {summary}
    chg,              \* per caller: check_service's local list `changes`
    all_changes,      \* per caller: run_full_scan's all_changes
    sess,             \* per caller: the open AsyncSession
    faults,           \* failures injected so far
    plan,             \* committed User.plan
    subscriptions,    \* committed rows of the subscriptions table
    alerts,           \* committed rows of the alerts table
    todo,             \* per caller: send_alerts_for_changes, changes left, current first
    subscribers,      \* per caller: subscribers left for the change, current first
    alert,            \* per caller: {} or {id of the Alert being delivered}
    resend_api_key,   \* settings.RESEND_API_KEY is set
    sales_agent_data_dir, \* settings.SALES_AGENT_DATA_DIR names an existing directory
    product_changes,  \* the entries of product_changes.json in that directory
    not_found,        \* push_changes: the services its latest call did not find
    seed_calls,       \* calls of POST /api/admin/seed-demo so far
    fetch_pc,         \* fetch_page: where the call stands
    retries,          \* fetch_page: its `retries` argument
    attempt,          \* fetch_page: the loop variable
    requests,         \* fetch_page: HTTP requests issued by this call
    response,         \* fetch_page: what the latest request met
    waits,            \* fetch_page: the sleeps of this call, in order
    fetch_result,     \* fetch_page: {} or {the dict returned}
    old_text,         \* compute_diff: first argument
    new_text,         \* compute_diff: second argument
    diff_result,      \* compute_diff: {} (not called) or {DiffResult}
    is_active,        \* Service.is_active of every row of the services table
    urls,             \* fetch_multiple: its `urls` argument
    max_concurrent,   \* fetch_multiple: its `max_concurrent` argument
    semaphore,        \* fetch_multiple: the permits the semaphore has left
    task,             \* fetch_multiple: per URL of the list, where its task stands
    fetch_calls,      \* fetch_multiple: per URL of the list, fetch_page calls made
    task_result,      \* fetch_multiple: per URL of the list, {} or {the task's result}
    gathered          \* fetch_multiple: {} or {the list returned}

vars ==<<clock, scanCount, snapshots, changes, last_checked_at, pc,
          scanId, services, urls_to_check, result, fetched, prev_snapshot,
          new_snapshot, diff, summary, chg, all_changes, sess, faults,
          plan, subscriptions, alerts, todo, subscribers, alert,
          resend_api_key, sales_agent_data_dir, product_changes, not_found,
          seed_calls, fetch_pc, retries, attempt,
          requests, response, waits, fetch_result, old_text, new_text, diff_result,
          is_active, urls, max_concurrent, semaphore, task, fetch_calls,
          task_result, gathered>>

gatherVars == <<urls, max_concurrent, semaphore, task, fetch_calls,
                task_result, gathered>>

dbVars == <<snapshots, changes, last_checked_at>>

alertVars == <<plan, subscriptions, alerts, todo, subscribers, alert,
               resend_api_key>>

localVars == <<result, fetched, prev_snapshot, new_snapshot, diff, summary>>

fetchVars == <<fetch_pc, retries, attempt, requests, response, waits,
               fetch_result>>

differVars == <<old_text, new_text, diff_result>>

exportVars == <<sales_agent_data_dir, product_changes, not_found>>

auxVars == <<exportVars, seed_calls, fetchVars, differVars, is_active, gatherVars>>

\* ---------------------------------------------------------------------------
NewSession ==
    [active |-> FALSE, start |-> 0, failed |-> FALSE,
     snaps |-> {}, changes |-> {}, alerts |-> {}, users |-> {}]

NoResult == [status |-> "none", content |-> EmptyText, content_hash |-> <<>>]

\* urls_to_check of check_service: (doc_type, url, change_type) triples.
UrlsOf(s) ==
    (IF tos_url(s) # NoUrl
     THEN <<[doc_type |-> "tos", url |-> tos_url(s), change_type |-> "tos_update"]>>
     ELSE <<>>)
    \o
    (IF privacy_url(s) # NoUrl
     THEN <<[doc_type |-> "privacy", url |-> privacy_url(s),
             change_type |-> "privacy_update"]>>
     ELSE <<>>)

\* select(Service).where(Service.is_active == True): the active services, in
\* the order the table returns them (the seeding order; the query has no
\* ORDER BY and nothing in the claims depends on the order).
TableOrder == <<"s1", "s2", "s3">>

ActiveServices == SelectSeq(TableOrder, LAMBDA s : is_active[s])

\* A fetch_page that reports a failed fetch as an empty page.
fetch_page_ErrorAsPage(url, ok, text) ==
    [status |-> "ok",
     content |-> IF ok THEN text ELSE EmptyText,
     content_hash |-> Sha256(IF ok THEN text ELSE EmptyText)]

\* fetch_page as seen by check_service: a discriminated result.  `ok` and
\* `text` are the network's answer: whether a response arrived within the
\* retries, and the text extracted from it.
fetch_page(url, ok, text) ==
    IF ok
    THEN [status |-> "ok", content |-> text, content_hash |-> Sha256(text)]
    ELSE [status |-> "error", content |-> EmptyText, content_hash |-> <<>>]

\* The query without its service_id condition.
LatestSnapshots_AnyService(p, service_id, url) ==
    LET visible == {s \in snapshots \cup sess[p].snaps : s.url = url}
    IN {s \in visible : \A o \in visible : o.fetched_at <= s.fetched_at}

\* _get_latest_snapshot: rows of (service, url) visible to the session, most
\* recent fetched_at first, LIMIT 1.  Rows with equal fetched_at tie.
LatestSnapshots(p, service_id, url) ==
    LET visible == {s \in snapshots \cup sess[p].snaps :
                        s.service_id = service_id /\ s.url = url}
    IN {s \in visible : \A o \in visible : o.fetched_at <= s.fetched_at}

\* The per-document block without the content_hash comparison of line 68.
Decide_NoHashShortcut(prev, res) ==
    IF prev = {} THEN "first"
    ELSE LET old == CHOOSE s \in prev : TRUE
             d == compute_diff(old.content, res.content)
         IN IF ~d.has_changes THEN "nochange"
            ELSE IF IsTrivial(d.similarity_ratio) THEN "trivial"
            ELSE "changed"

\* check_service lines 64-81: what the per-document block does after the new
\* snapshot was flushed.
Decide(prev, res) ==
    IF prev = {} THEN "first"
    ELSE LET old == CHOOSE s \in prev : TRUE
             d == compute_diff(old.content, res.content)
         IN IF old.content_hash = res.content_hash THEN "same"
            ELSE IF ~d.has_changes THEN "nochange"
            ELSE IF IsTrivial(d.similarity_ratio) THEN "trivial"
            ELSE "changed"

\* The change feed is empty, the demo data was never seeded, and no
\* fetch_page and no compute_diff call is being followed step by step.
NoFetch ==
    /\ fetch_pc = "idle"
    /\ retries = 0
    /\ attempt = 0
    /\ requests = 0
    /\ response = "none"
    /\ waits = <<>>
    /\ fetch_result = {}

\* No fetch_multiple call: the utility is not used by the scheduler.
NoGather ==
    /\ urls = <<>>
    /\ max_concurrent = 1
    /\ semaphore = 1
    /\ task = <<>>
    /\ fetch_calls = <<>>
    /\ task_result = <<>>
    /\ gathered = {<<>>}

NothingUnderWay ==
    /\ not_found = {}
    /\ NoGather
    /\ seed_calls = 0
    /\ NoFetch
    /\ old_text = <<>>
    /\ new_text = <<>>
    /\ diff_result = {}

NoCalls ==
    /\ product_changes = <<>>
    /\ NothingUnderWay

\* The catalogue as seeded, and nothing of the above under way.
Seeded ==
    /\ is_active = SeededActive
    /\ NoCalls

ScanInit ==
    /\ clock = 0
    /\ scanCount = [p \in Procs |-> 0]
    /\ snapshots = {}
    /\ changes = {}
    /\ last_checked_at = [s \in Services |-> 0]
    /\ pc = [p \in Procs |-> "idle"]
    /\ scanId = [p \in Procs |-> <<p, 0>>]
    /\ services = [p \in Procs |-> <<>>]
    /\ urls_to_check = [p \in Procs |-> <<>>]
    /\ result = [p \in Procs |-> NoResult]
    /\ fetched = [p \in Procs |-> <<>>]
    /\ prev_snapshot = [p \in Procs |-> {}]
    /\ new_snapshot = [p \in Procs |-> {}]
    /\ diff = [p \in Procs |-> {}]
    /\ summary = [p \in Procs |-> {}]
    /\ chg = [p \in Procs |-> <<>>]
    /\ all_changes = [p \in Procs |-> <<>>]
    /\ sess = [p \in Procs |-> NewSession]
    /\ faults = 0
    /\ plan = [u \in Users |-> "free"]
    /\ subscriptions = {}
    /\ alerts = {}
    /\ todo = [p \in Procs |-> <<>>]
    /\ subscribers = [p \in Procs |-> <<>>]
    /\ alert = [p \in Procs |-> {}]
    /\ resend_api_key = FALSE

Init ==
    /\ ScanInit
    /\ sales_agent_data_dir = FALSE
    /\ Seeded

\* A loop that hands the Changes to the dispatcher as soon as there is one.
EnterService_DispatchAtOnce(p, rest, acc) ==
    /\ services' = [services EXCEPT ![p] = rest]
    /\ all_changes' = [all_changes EXCEPT ![p] = acc]
    /\ chg' = [chg EXCEPT ![p] = <<>>]
    /\ sess' = [sess EXCEPT ![p] = NewSession]
    /\ result' = [result EXCEPT ![p] = NoResult]
    /\ fetched' = [fetched EXCEPT ![p] = <<>>]
    /\ prev_snapshot' = [prev_snapshot EXCEPT ![p] = {}]
    /\ new_snapshot' = [new_snapshot EXCEPT ![p] = {}]
    /\ diff' = [diff EXCEPT ![p] = {}]
    /\ summary' = [summary EXCEPT ![p] = {}]
    /\ todo' = [todo EXCEPT ![p] = acc]
    /\ IF rest = <<>> \/ acc # <<>>
       THEN /\ urls_to_check' = [urls_to_check EXCEPT ![p] = <<>>]
            /\ pc' = [pc EXCEPT ![p] = IF acc = <<>> THEN "idle" ELSE "alerts"]
       ELSE /\ urls_to_check' = [urls_to_check EXCEPT ![p] = UrlsOf(Head(rest))]
            /\ pc' = [pc EXCEPT ![p] =
                        IF UrlsOf(Head(rest)) = <<>> THEN "update" ELSE "fetch"]

\* run_full_scan lines 161-165: enter the next service of the worklist `rest`
\* with a session of its own; or leave the loop (lines 173-190): return when
\* no Change was found, else open a fresh session for the alert dispatcher.
EnterService(p, rest, acc) ==
    /\ services' = [services EXCEPT ![p] = rest]
    /\ all_changes' = [all_changes EXCEPT ![p] = acc]
    /\ chg' = [chg EXCEPT ![p] = <<>>]
    /\ sess' = [sess EXCEPT ![p] = NewSession]
    /\ result' = [result EXCEPT ![p] = NoResult]
    /\ fetched' = [fetched EXCEPT ![p] = <<>>]
    /\ prev_snapshot' = [prev_snapshot EXCEPT ![p] = {}]
    /\ new_snapshot' = [new_snapshot EXCEPT ![p] = {}]
    /\ diff' = [diff EXCEPT ![p] = {}]
    /\ summary' = [summary EXCEPT ![p] = {}]
    /\ todo' = [todo EXCEPT ![p] = IF rest = <<>> THEN acc ELSE <<>>]
    /\ IF rest = <<>>
       THEN /\ urls_to_check' = [urls_to_check EXCEPT ![p] = <<>>]
            /\ pc' = [pc EXCEPT ![p] = IF acc = <<>> THEN "idle" ELSE "alerts"]
       ELSE /\ urls_to_check' = [urls_to_check EXCEPT ![p] = UrlsOf(Head(rest))]
            /\ pc' = [pc EXCEPT ![p] =
                        IF UrlsOf(Head(rest)) = <<>> THEN "update" ELSE "fetch"]

\* run_full_scan lines 149-165: enumerate the active services once, then enter
\* the first one.  The caller's previous scan has returned ("idle") or has
\* raised ("raised").  A storage error in the SELECT of lines 152-156 ("db" in
\* `kinds`) is outside every try block: run_full_scan raises.
StartScan(p, kinds) ==
    /\ pc[p] \in {"idle", "raised"}
    /\ scanCount[p] < MaxScans(p)
    /\ scanCount' = [scanCount EXCEPT ![p] = @ + 1]
    /\ scanId' = [scanId EXCEPT ![p] = <<p, scanCount[p] + 1>>]
    /\ \E dberr \in {b \in BOOLEAN : b => (faults < MaxFaults /\ "db" \in kinds)} :
        /\ faults' = IF dberr THEN faults + 1 ELSE faults
        /\ IF dberr
           THEN /\ pc' = [pc EXCEPT ![p] = "raised"]
                /\ all_changes' = [all_changes EXCEPT ![p] = <<>>]
                /\ UNCHANGED <<services, chg, sess, localVars, todo, urls_to_check>>
           ELSE EnterService(p, ActiveServices, <<>>)
    /\ UNCHANGED <<auxVars, clock, dbVars, plan, subscriptions, alerts,
                   subscribers, alert, resend_api_key>>

\* A loop that is left for the update after its first document.
NextDocument_LeaveLoop(p) ==
    /\ urls_to_check' = [urls_to_check EXCEPT ![p] = Tail(@)]
    /\ pc' = [pc EXCEPT ![p] = "update"]

\* `continue` / end of the per-document block: on to the next url, or to the
\* last_checked_at update after the loop.
NextDocument(p) ==
    /\ urls_to_check' = [urls_to_check EXCEPT ![p] = Tail(@)]
    /\ pc' = [pc EXCEPT ![p] =
                IF Tail(urls_to_check[p]) = <<>> THEN "update" ELSE "fetch"]

\* check_service lines 44-47: await fetch_page(url).
FetchDocument(p, outcomes) ==
    /\ pc[p] = "fetch"
    /\ \E ok \in outcomes, text \in PageTexts(Head(urls_to_check[p]).url) :
        LET res == fetch_page(Head(urls_to_check[p]).url, ok, text)
        IN /\ result' = [result EXCEPT ![p] = res]
           /\ fetched' = [fetched EXCEPT ![p] =
                            Append(@, IF ok THEN "ok" ELSE "error")]
           /\ IF res.status # "ok"
              THEN NextDocument(p)
              ELSE /\ pc' = [pc EXCEPT ![p] = "compare"]
                   /\ UNCHANGED urls_to_check
    /\ UNCHANGED <<auxVars, clock, scanCount, dbVars, scanId, services,
                   prev_snapshot, new_snapshot, diff, summary, chg,
                   all_changes, sess, faults, alertVars>>

\* check_service lines 50-81: await _get_latest_snapshot, db.add + await
\* db.flush of the new snapshot, then the comparison up to the classifier
\* call.  Injected failures (those of `kinds`), both caught at line 117:
\*   "db"  - a storage error in lines 50-61; the transaction is left aborted;
\*   "exc" - an exception after the flush (the differ raising); the snapshot
\*           stays in the session and the loop goes on.
CheckDocument(p, kinds) ==
    /\ pc[p] = "compare"
    /\ LET doc == Head(urls_to_check[p])
           sid == Head(services[p])
           begun == IF sess[p].active THEN sess[p]
                    ELSE [sess[p] EXCEPT !.active = TRUE, !.start = clock + 1]
           latest == LatestSnapshots(p, sid, doc.url)
           snap == [id |-> <<scanId[p], sid, doc.url>>,
                    service_id |-> sid,
                    url |-> doc.url,
                    content_hash |-> result[p].content_hash,
                    content |-> result[p].content,
                    fetched_at |-> begun.start]
       IN \E fault \in {"none"} \cup (IF faults < MaxFaults THEN kinds ELSE {}) :
            /\ faults' = IF fault = "none" THEN faults ELSE faults + 1
            /\ IF fault = "db" \/ sess[p].failed
               THEN /\ sess' = [sess EXCEPT ![p].failed = TRUE]
                    /\ NextDocument(p)
                    /\ UNCHANGED <<clock, prev_snapshot, new_snapshot, diff>>
               ELSE /\ clock' = IF sess[p].active THEN clock ELSE clock + 1
                    /\ \E prev \in (IF latest = {} THEN {{}}
                                    ELSE {{s} : s \in latest}) :
                         /\ prev_snapshot' = [prev_snapshot EXCEPT ![p] = prev]
                         /\ new_snapshot' = [new_snapshot EXCEPT ![p] = {snap}]
                         /\ sess' = [sess EXCEPT ![p] =
                                       [begun EXCEPT !.snaps = @ \cup {snap}]]
                         /\ diff' = [diff EXCEPT ![p] =
                                       IF fault = "exc"
                                          \/ Decide(prev, result[p]) \in {"first", "same"}
                                       THEN {}
                                       ELSE {compute_diff(
                                               (CHOOSE s \in prev : TRUE).content,
                                               result[p].content)}]
                         /\ IF fault = "none" /\ Decide(prev, result[p]) = "changed"
                            THEN /\ pc' = [pc EXCEPT ![p] = "summarize"]
                                 /\ UNCHANGED urls_to_check
                            ELSE NextDocument(p)
    /\ UNCHANGED <<auxVars, scanCount, dbVars, scanId, services, result, fetched,
                   summary, chg, all_changes, alertVars>>

\* check_service lines 84-115: await summarize_change, then db.add(change) and
\* changes.append(change).  `replies` is what the classifier may answer.  A
\* Change the table cannot take (a NULL in a NOT NULL column) stays pending in
\* the session; the next statement autoflushes it, the INSERT is refused and
\* the transaction is aborted.
RecordChange(p, replies) ==
    /\ pc[p] = "summarize"
    /\ \E reply \in replies :
        LET doc == Head(urls_to_check[p])
            old == CHOOSE s \in prev_snapshot[p] : TRUE
            new == CHOOSE s \in new_snapshot[p] : TRUE
            sm == summarize_change(Head(services[p]), reply)
            change == [id |-> <<scanId[p], Head(services[p]), doc.url>>,
                       service_id |-> Head(services[p]),
                       snapshot_old_id |-> old.id,
                       snapshot_new_id |-> new.id,
                       change_type |-> doc.change_type,
                       severity |-> sm.severity,
                       title |-> sm.title,
                       summary |-> sm.summary]
        IN /\ summary' = [summary EXCEPT ![p] = {sm}]
           /\ sess' = [sess EXCEPT ![p].changes = @ \cup {change},
                                   ![p].failed = @ \/ ~Storable(change)]
           /\ chg' = [chg EXCEPT ![p] = Append(@, change)]
    /\ NextDocument(p)
    /\ UNCHANGED <<auxVars, clock, scanCount, dbVars, scanId, services, result,
                   fetched, prev_snapshot, new_snapshot, diff, all_changes,
                   faults, alertVars>>

\* A run_full_scan that commits the session's rows even when the service raised.
FinishService_CommitAnyway(p, kinds) ==
    /\ pc[p] = "update"
    /\ \E dberr \in {b \in BOOLEAN : b => (faults < MaxFaults /\ "db" \in kinds)} :
        /\ faults' = IF dberr THEN faults + 1 ELSE faults
        /\ IF dberr \/ sess[p].failed
           THEN /\ EnterService(p, Tail(services[p]), all_changes[p])
                /\ snapshots' = snapshots \cup sess[p].snaps
                /\ changes' = changes \cup sess[p].changes
                /\ UNCHANGED <<clock, last_checked_at>>
           ELSE /\ clock' = clock + 1
                /\ last_checked_at' =
                       [last_checked_at EXCEPT ![Head(services[p])] = clock + 1]
                /\ snapshots' = snapshots \cup sess[p].snaps
                /\ changes' = changes \cup sess[p].changes
                /\ EnterService(p, Tail(services[p]), all_changes[p] \o chg[p])
    /\ UNCHANGED <<auxVars, scanCount, scanId, plan, subscriptions, alerts,
                   subscribers, alert, resend_api_key>>

\* check_service lines 122-128 and run_full_scan lines 166-171: the UPDATE of
\* last_checked_at, db.commit(), all_changes.extend(changes); a storage error
\* (or an aborted transaction) raises to line 168 and the session is closed
\* without a commit.  Then the pacing sleep and the next service.
FinishService(p, kinds) ==
    /\ pc[p] = "update"
    /\ \E dberr \in {b \in BOOLEAN : b => (faults < MaxFaults /\ "db" \in kinds)} :
        /\ faults' = IF dberr THEN faults + 1 ELSE faults
        /\ IF dberr \/ sess[p].failed
           THEN /\ EnterService(p, Tail(services[p]), all_changes[p])
                /\ UNCHANGED <<clock, dbVars>>
           ELSE /\ clock' = clock + 1
                /\ last_checked_at' =
                       [last_checked_at EXCEPT ![Head(services[p])] = clock + 1]
                /\ snapshots' = snapshots \cup sess[p].snaps
                /\ changes' = changes \cup sess[p].changes
                /\ EnterService(p, Tail(services[p]), all_changes[p] \o chg[p])
    /\ UNCHANGED <<auxVars, scanCount, scanId, plan, subscriptions, alerts,
                   subscribers, alert, resend_api_key>>

\* ---------------------------------------------------------------------------
\* Alert dispatcher (app/services/alerts.py).

scanVars == <<clock, scanCount, dbVars, scanId, services, urls_to_check,
              localVars, chg, all_changes, faults>>

\* The User row as the session sees it: a row already in the session's
\* identity map keeps the attributes it was loaded with.
LoadUser(p, user_id) ==
    IF \E r \in sess[p].users : r.id = user_id
    THEN CHOOSE r \in sess[p].users : r.id = user_id
    ELSE [id |-> user_id, plan |-> plan[user_id]]

\* alerts.py line 64: not limits.realtime_alerts -> skip the subscriber.
SkipsSubscriber(limits) == ~limits.realtime_alerts

\* Line 91 without limits.can_webhook.
WantsWebhook_NoTierCheck(sub, limits) ==
    sub.notify_webhook /\ sub.webhook_url # NoUrl

\* alerts.py line 91.
WantsWebhook(sub, limits) ==
    sub.notify_webhook /\ sub.webhook_url # NoUrl /\ limits.can_webhook

\* Alert(...) with status PENDING, db.add, await db.flush (lines 72-79, 92-99).
NewAlert(p, s, sub, channel) ==
    [id |-> <<scanId[p], Cardinality(s.alerts) + 1>>,
     change_id |-> Head(todo[p]).id,
     user_id |-> sub.user_id,
     channel |-> channel,
     status |-> "pending",
     error_message |-> "",
     posted |-> FALSE]

\* The loops of lines 32 and 51 step on: next subscriber, else next change,
\* else send_alerts_for_changes returns and run_full_scan commits (line 183).
AfterSubscriber(p) ==
    IF Tail(subscribers[p]) # <<>>
    THEN /\ subscribers' = [subscribers EXCEPT ![p] = Tail(@)]
         /\ pc' = [pc EXCEPT ![p] = "subscriber"]
         /\ UNCHANGED todo
    ELSE /\ subscribers' = [subscribers EXCEPT ![p] = <<>>]
         /\ todo' = [todo EXCEPT ![p] = Tail(@)]
         /\ pc' = [pc EXCEPT ![p] =
                     IF Tail(todo[p]) = <<>> THEN "alerts_commit" ELSE "alerts"]

\* A webhook branch that is skipped once the email send of the subscription
\* has failed.
WebhookBranch_SkipAfterFailure(p, s, sub, limits) ==
    IF /\ WantsWebhook(sub, limits)
       /\ ~\E a \in s.alerts : a.id \in alert[p] /\ a.status = "failed"
    THEN LET a == NewAlert(p, s, sub, "webhook")
         IN /\ sess' = [sess EXCEPT ![p] = [s EXCEPT !.alerts = @ \cup {a}]]
            /\ alert' = [alert EXCEPT ![p] = {a.id}]
            /\ pc' = [pc EXCEPT ![p] = "webhook_send"]
            /\ UNCHANGED <<subscribers, todo>>
    ELSE /\ sess' = [sess EXCEPT ![p] = s]
         /\ alert' = [alert EXCEPT ![p] = {}]
         /\ AfterSubscriber(p)

\* Lines 90-99 for subscription `sub`, session state `s`, tier limits `limits`.
WebhookBranch(p, s, sub, limits) ==
    IF WantsWebhook(sub, limits)
    THEN LET a == NewAlert(p, s, sub, "webhook")
         IN /\ sess' = [sess EXCEPT ![p] = [s EXCEPT !.alerts = @ \cup {a}]]
            /\ alert' = [alert EXCEPT ![p] = {a.id}]
            /\ pc' = [pc EXCEPT ![p] = "webhook_send"]
            /\ UNCHANGED <<subscribers, todo>>
    ELSE /\ sess' = [sess EXCEPT ![p] = s]
         /\ alert' = [alert EXCEPT ![p] = {}]
         /\ AfterSubscriber(p)

\* Row lists in which one row of the set comes twice.
Orderings_RowTwice(S) ==
    {q \in [1..(Cardinality(S) + 1) -> S] : \A r \in S : \E i \in DOMAIN q : q[i] = r}

\* Orderings of a set of rows (a SELECT without ORDER BY).
Orderings(S) ==
    {q \in [1..Cardinality(S) -> S] : \A i, j \in DOMAIN q : i # j => q[i] # q[j]}

\* Lines 32-49: for the next change, select its service and its subscriptions.
DispatchChange(p) ==
    /\ pc[p] = "alerts"
    /\ LET change == Head(todo[p])
           subs == {sub \in subscriptions : sub.service_id = change.service_id}
       IN IF subs = {}
          THEN /\ todo' = [todo EXCEPT ![p] = Tail(@)]
               /\ pc' = [pc EXCEPT ![p] =
                           IF Tail(todo[p]) = <<>> THEN "alerts_commit" ELSE "alerts"]
               /\ UNCHANGED subscribers
          ELSE /\ \E q \in Orderings(subs) :
                    subscribers' = [subscribers EXCEPT ![p] = q]
               /\ pc' = [pc EXCEPT ![p] = "subscriber"]
               /\ UNCHANGED todo
    /\ UNCHANGED <<auxVars, scanVars, sess, plan, subscriptions, alerts, alert,
                   resend_api_key>>

\* Lines 51-79 (and 90-99 when no email is requested): select the user, apply
\* the tier gate, create the first Alert of this subscriber as PENDING.
DispatchSubscriber(p) ==
    /\ pc[p] = "subscriber"
    /\ LET sub == Head(subscribers[p])
           user == LoadUser(p, sub.user_id)
           limits == get_limits(user.plan)
           s == [sess[p] EXCEPT !.users = @ \cup {user}]
       IN IF SkipsSubscriber(limits)
          THEN /\ sess' = [sess EXCEPT ![p] = s]
               /\ alert' = [alert EXCEPT ![p] = {}]
               /\ AfterSubscriber(p)
          ELSE IF sub.notify_email
          THEN LET a == NewAlert(p, s, sub, "email")
               IN /\ sess' = [sess EXCEPT ![p] = [s EXCEPT !.alerts = @ \cup {a}]]
                  /\ alert' = [alert EXCEPT ![p] = {a.id}]
                  /\ pc' = [pc EXCEPT ![p] = "email_send"]
                  /\ UNCHANGED <<subscribers, todo>>
          ELSE WebhookBranch(p, s, sub, limits)
    /\ UNCHANGED <<auxVars, scanVars, plan, subscriptions, alerts, resend_api_key>>

\* An except branch that leaves the Alert as it is.
Delivered_FailureLeftPending(a, outcome) ==
    IF outcome = "raised"
    THEN a
    ELSE [a EXCEPT !.status = "sent", !.posted = (outcome = "accepted")]

\* The status an Alert gets from the outcome of its send (lines 81-88, 101-108).
Delivered(a, outcome) ==
    IF outcome = "raised"
    THEN [a EXCEPT !.status = "failed", !.error_message = "error"]
    ELSE [a EXCEPT !.status = "sent", !.posted = (outcome = "accepted")]

\* _send_email_alert (lines 111-161): returns without a request when no API
\* key is configured; else posts to the provider, which accepts or raises.
EmailOutcomes == IF resend_api_key THEN {"accepted", "raised"} ELSE {"skipped"}

\* _send_webhook_alert (lines 164-189).
WebhookOutcomes == {"accepted", "raised"}

SetStatus(s, ids, outcome) ==
    [s EXCEPT !.alerts = {IF a.id \in ids THEN Delivered(a, outcome) ELSE a : a \in @}]

\* Lines 81-99: await _send_email_alert, record the outcome, then the webhook
\* gate of the same subscription.
EmailSend(p) ==
    /\ pc[p] = "email_send"
    /\ \E outcome \in EmailOutcomes :
        LET sub == Head(subscribers[p])
            limits == get_limits(LoadUser(p, sub.user_id).plan)
        IN WebhookBranch(p, SetStatus(sess[p], alert[p], outcome), sub, limits)
    /\ UNCHANGED <<auxVars, scanVars, plan, subscriptions, alerts, resend_api_key>>

\* Lines 101-108: await _send_webhook_alert, record the outcome.
WebhookSend(p) ==
    /\ pc[p] = "webhook_send"
    /\ \E outcome \in WebhookOutcomes :
        sess' = [sess EXCEPT ![p] = SetStatus(sess[p], alert[p], outcome)]
    /\ alert' = [alert EXCEPT ![p] = {}]
    /\ AfterSubscriber(p)
    /\ UNCHANGED <<auxVars, scanVars, plan, subscriptions, alerts, resend_api_key>>

\* run_full_scan lines 183-190: await db.commit() of the dispatcher's
\* session, then push_changes.  With no data directory configured
\* push_changes returns at once (sales_bridge.py 28-35) and run_full_scan
\* returns all_changes; otherwise the export goes on to its queries.  Lines
\* 179-183 are in no try block: a storage error at the commit ("db" in
\* `kinds`) closes the session without its rows and leaves run_full_scan as an
\* exception.
DispatchCommit(p, kinds) ==
    /\ pc[p] = "alerts_commit"
    /\ \E dberr \in {b \in BOOLEAN : b => (faults < MaxFaults /\ "db" \in kinds)} :
        /\ faults' = IF dberr THEN faults + 1 ELSE faults
        /\ alerts' = IF dberr THEN alerts ELSE alerts \cup sess[p].alerts
        /\ pc' = [pc EXCEPT ![p] = IF dberr THEN "raised"
                                   ELSE IF sales_agent_data_dir THEN "export"
                                   ELSE "idle"]
    /\ sess' = [sess EXCEPT ![p] = NewSession]
    /\ UNCHANGED <<auxVars, clock, scanCount, dbVars, scanId, services,
                   urls_to_check, localVars, chg, all_changes, plan,
                   subscriptions, todo, subscribers, alert, resend_api_key>>

\* What the export may meet: the feed is written; the existing file cannot be
\* read or parsed (caught at lines 42-45: the feed restarts empty); a service
\* row is not found (line 58: the entry is skipped); write_text fails.
ExportOutcomes == {"written", "feed_unreadable", "service_missing", "unwritable"}

\* Line 78: existing[-200:].
FeedLimit == 200

\* A slice that keeps the oldest entries.
LastEntries_KeepsOldest(q) ==
    IF Len(q) <= FeedLimit THEN q ELSE SubSeq(q, 1, FeedLimit)

LastEntries(q) ==
    IF Len(q) <= FeedLimit THEN q ELSE SubSeq(q, Len(q) - FeedLimit + 1, Len(q))

\* Lines 54-57: the services the export queries.
BatchServices(batch) == {batch[i].service_id : i \in 1..Len(batch)}

\* Lines 52-76: one entry for every Change of the batch whose Service row is
\* found (`missing`: the services whose row is gone), in the batch's order.
FeedEntries(batch, missing) ==
    LET found == SelectSeq(batch, LAMBDA c : c.service_id \notin missing)
    IN [i \in 1..Len(found) |-> found[i].id]

\* push_changes lines 37-81 and run_full_scan line 190.  write_text is in no
\* try block, in push_changes or in run_full_scan: its OSError leaves
\* run_full_scan as an exception.
PushChanges(p, outcomes) ==
    /\ pc[p] = "export"
    /\ \E outcome \in outcomes :
      \E missing \in IF outcome = "service_missing"
                      THEN SUBSET BatchServices(all_changes[p]) \ {{}}
                      ELSE {{}} :
        LET existing == IF outcome = "feed_unreadable" THEN <<>> ELSE product_changes
            entries == FeedEntries(all_changes[p], missing)
        IN /\ not_found' = missing
           /\ IF outcome = "unwritable"
              THEN /\ pc' = [pc EXCEPT ![p] = "raised"]
                   /\ UNCHANGED product_changes
              ELSE /\ pc' = [pc EXCEPT ![p] = "idle"]
                   /\ product_changes' = LastEntries(existing \o entries)
    /\ UNCHANGED <<scanVars, sess, alertVars, sales_agent_data_dir, seed_calls,
                   fetchVars, differVars, is_active, gatherVars>>

\* main.py trigger_scan (lines 206-215): the answer to POST /api/admin/scan
\* once the caller's run_full_scan is over: the count when it returned, the
\* framework's 500 when it raised.
trigger_scan(p) ==
    IF pc[p] = "raised" THEN {[status_code |-> 500]}
    ELSE IF pc[p] = "idle" /\ scanCount[p] > 0
    THEN {[status_code |-> 200, status |-> "completed",
           changes_detected |-> Len(all_changes[p])]}
    ELSE {}

\* routers/billing.py stripe_webhook: a checkout or a subscription event sets
\* the user's plan.
stripe_webhook(u, new_plan) ==
    /\ plan[u] # new_plan
    /\ plan' = [plan EXCEPT ![u] = new_plan]
    /\ UNCHANGED <<auxVars, scanVars, pc, sess, subscriptions, alerts, todo, subscribers,
                   alert, resend_api_key>>

\* ---------------------------------------------------------------------------
\* Rows as the scan writes them, for the two starting states below.
SnapshotRow(scan, sid, url, text, at) ==
    [id |-> <<scan, sid, url>>, service_id |-> sid, url |-> url,
     content_hash |-> Sha256(text), content |-> text, fetched_at |-> at]

ChangeRow(scan, sid, url, old_scan, severity) ==
    [id |-> <<scan, sid, url>>, service_id |-> sid,
     snapshot_old_id |-> <<old_scan, sid, url>>,
     snapshot_new_id |-> <<scan, sid, url>>,
     change_type |-> "privacy_update", severity |-> severity,
     title |-> "Terms rewritten", summary |-> "Section 4 changed"]

FirstScanSnapshots ==
    {SnapshotRow(<<"timer", 1>>, "s1", "u1", <<"B1", "S1">>, 1),
     SnapshotRow(<<"timer", 1>>, "s1", "u2", <<"B1", "S1">>, 1),
     SnapshotRow(<<"timer", 1>>, "s2", "u2", <<"B1", "S1">>, 3)}

\* The state after the first timer scan ran alone and found every page: the
\* baseline snapshots are committed.
FirstScanState ==
    /\ clock = 4
    /\ scanCount = [p \in Procs |-> IF p = "timer" THEN 1 ELSE 0]
    /\ snapshots = FirstScanSnapshots
    /\ changes = {}
    /\ last_checked_at = [s \in Services |->
                             IF s = "s1" THEN 2 ELSE IF s = "s2" THEN 4 ELSE 0]
    /\ pc = [p \in Procs |-> "idle"]
    /\ scanId = [p \in Procs |-> <<p, IF p = "timer" THEN 1 ELSE 0>>]
    /\ services = [p \in Procs |-> <<>>]
    /\ urls_to_check = [p \in Procs |-> <<>>]
    /\ result = [p \in Procs |-> NoResult]
    /\ fetched = [p \in Procs |-> <<>>]
    /\ prev_snapshot = [p \in Procs |-> {}]
    /\ new_snapshot = [p \in Procs |-> {}]
    /\ diff = [p \in Procs |-> {}]
    /\ summary = [p \in Procs |-> {}]
    /\ chg = [p \in Procs |-> <<>>]
    /\ all_changes = [p \in Procs |-> <<>>]
    /\ sess = [p \in Procs |-> NewSession]
    /\ faults = 0
    /\ plan = [u \in Users |-> "free"]
    /\ subscriptions = {}
    /\ alerts = {}
    /\ todo = [p \in Procs |-> <<>>]
    /\ subscribers = [p \in Procs |-> <<>>]
    /\ alert = [p \in Procs |-> {}]
    /\ resend_api_key = FALSE

FirstScanDone ==
    /\ FirstScanState
    /\ NoCalls

\* The same with the change-feed export left unconfigured, as by default.
\* (Reachable under Spec.)
AfterFirstScan ==
    /\ FirstScanDone
    /\ is_active = SeededActive
    /\ sales_agent_data_dir = FALSE

SecondScanChanges ==
    <<ChangeRow(<<"timer", 2>>, "s1", "u2", <<"timer", 1>>, "major"),
      ChangeRow(<<"timer", 2>>, "s2", "u2", <<"timer", 1>>, "major")>>

\* The scan part of the state in which the second timer scan, after the
\* privacy page changed, leaves its loop with two new Changes and is about to
\* call send_alerts_for_changes.  (Reachable under Spec.)
SecondScanFoundChanges ==
    /\ clock = 8
    /\ scanCount = [p \in Procs |-> IF p = "timer" THEN 2 ELSE 0]
    /\ snapshots = FirstScanSnapshots \cup
          {SnapshotRow(<<"timer", 2>>, "s1", "u1", <<"B1", "S1">>, 5),
           SnapshotRow(<<"timer", 2>>, "s1", "u2", <<"B1", "S2">>, 5),
           SnapshotRow(<<"timer", 2>>, "s2", "u2", <<"B1", "S2">>, 7)}
    /\ changes = {SecondScanChanges[i] : i \in 1..2}
    /\ last_checked_at = [s \in Services |->
                             IF s = "s1" THEN 6 ELSE IF s = "s2" THEN 8 ELSE 0]
    /\ pc = [p \in Procs |-> IF p = "timer" THEN "alerts" ELSE "idle"]
    /\ scanId = [p \in Procs |-> <<p, IF p = "timer" THEN 2 ELSE 0>>]
    /\ services = [p \in Procs |-> <<>>]
    /\ urls_to_check = [p \in Procs |-> <<>>]
    /\ result = [p \in Procs |-> NoResult]
    /\ fetched = [p \in Procs |-> <<>>]
    /\ prev_snapshot = [p \in Procs |-> {}]
    /\ new_snapshot = [p \in Procs |-> {}]
    /\ diff = [p \in Procs |-> {}]
    /\ summary = [p \in Procs |-> {}]
    /\ chg = [p \in Procs |-> <<>>]
    /\ all_changes = [p \in Procs |-> IF p = "timer" THEN SecondScanChanges ELSE <<>>]
    /\ sess = [p \in Procs |-> NewSession]
    /\ faults = 0
    /\ alerts = {}
    /\ todo = [p \in Procs |-> IF p = "timer" THEN SecondScanChanges ELSE <<>>]
    /\ subscribers = [p \in Procs |-> <<>>]
    /\ alert = [p \in Procs |-> {}]
    /\ sales_agent_data_dir = FALSE
    /\ Seeded

\* Subscription rows (routers/services.py subscribe): any notification
\* preferences; at most one row per (user, service) (uq_user_service).  alice
\* may follow both services, bob follows s1.
SubscriptionRows(u, s) ==
    IF s = "s1"
    THEN {[user_id |-> u, service_id |-> s, notify_email |-> e,
           notify_webhook |-> w, webhook_url |-> h] :
              e \in BOOLEAN, w \in BOOLEAN, h \in {NoUrl, "hook"}}
    ELSE IF u = "alice"
    THEN {[user_id |-> u, service_id |-> s, notify_email |-> TRUE,
           notify_webhook |-> TRUE, webhook_url |-> "hook"]}
    ELSE {}

SubscriptionTables ==
    {a \cup b \cup c :
        a \in {{}} \cup {{r} : r \in SubscriptionRows("alice", "s1")},
        b \in {{}} \cup {{r} : r \in SubscriptionRows("bob", "s1")},
        c \in {{}} \cup {{r} : r \in SubscriptionRows("alice", "s2")}}

\* ---------------------------------------------------------------------------
\* The interval timer alone: scans one after the other, every failure kind.
Timer == {"timer"}

FaultKinds == {"db", "exc"}

NoFaults == {}

Next ==
    \/ \E p \in Timer : StartScan(p, NoFaults)
    \/ \E p \in Timer : FetchDocument(p, BOOLEAN)
    \/ \E p \in Timer : CheckDocument(p, FaultKinds)
    \/ \E p \in Timer : RecordChange(p, ClassifierOutcomes)
    \/ \E p \in Timer : FinishService(p, FaultKinds)
    \/ \E p \in Timer : DispatchChange(p)
    \/ \E p \in Timer : DispatchCommit(p, NoFaults)

Spec == Init /\ [][Next]_vars

\* The manual trigger next to the timer: POST /api/admin/scan calls
\* run_full_scan while the timer's scan may be in flight.  Starts from the
\* committed baseline; every fetch succeeds and no failure is injected.
NextOverlap ==
    \/ \E p \in Procs : StartScan(p, NoFaults)
    \/ \E p \in Procs : FetchDocument(p, {TRUE})
    \/ \E p \in Procs : CheckDocument(p, NoFaults)
    \/ \E p \in Procs : RecordChange(p, ClassifierOutcomes)
    \/ \E p \in Procs : FinishService(p, NoFaults)
    \/ \E p \in Procs : DispatchChange(p)
    \/ \E p \in Procs : DispatchCommit(p, NoFaults)

SpecOverlap == AfterFirstScan /\ [][NextOverlap]_vars

\* The alert dispatcher on the batch of the second scan, for every table of
\* subscriptions and every plan, while Stripe events change plans.
InitAlerts ==
    /\ SecondScanFoundChanges
    /\ plan \in [Users -> Plans]
    /\ subscriptions \in SubscriptionTables
    /\ resend_api_key \in BOOLEAN

NextAlerts ==
    \/ \E u \in Users, pl \in Plans : stripe_webhook(u, pl)
    \/ \E p \in Timer : DispatchChange(p)
    \/ \E p \in Timer : DispatchSubscriber(p)
    \/ \E p \in Timer : EmailSend(p)
    \/ \E p \in Timer : WebhookSend(p)
    \/ \E p \in Timer : DispatchCommit(p, NoFaults)

SpecAlerts == InitAlerts /\ [][NextAlerts]_vars

\* ---------------------------------------------------------------------------
\* The timer's scans after the baseline with every reply of the classifier:
\* every fetch succeeds and no failure is injected.
NextClassifier ==
    \/ \E p \in Timer : StartScan(p, NoFaults)
    \/ \E p \in Timer : FetchDocument(p, {TRUE})
    \/ \E p \in Timer : CheckDocument(p, NoFaults)
    \/ \E p \in Timer : RecordChange(p, ClassifierResponses)
    \/ \E p \in Timer : FinishService(p, NoFaults)
    \/ \E p \in Timer : DispatchChange(p)
    \/ \E p \in Timer : DispatchCommit(p, NoFaults)

SpecClassifier == AfterFirstScan /\ [][NextClassifier]_vars

\* ---------------------------------------------------------------------------
\* POST /api/admin/scan after the baseline, with the change-feed export
\* configured: the service list query may fail and the export may meet each
\* of its outcomes.
Manual == {"manual"}

InitTrigger ==
    /\ FirstScanDone
    /\ is_active = SeededActive
    /\ sales_agent_data_dir = TRUE

NextTrigger ==
    \/ \E p \in Manual : StartScan(p, {"db"})
    \/ \E p \in Manual : FetchDocument(p, {TRUE})
    \/ \E p \in Manual : CheckDocument(p, NoFaults)
    \/ \E p \in Manual : RecordChange(p, ClassifierOutcomes)
    \/ \E p \in Manual : FinishService(p, NoFaults)
    \/ \E p \in Manual : DispatchChange(p)
    \/ \E p \in Manual : DispatchCommit(p, NoFaults)
    \/ \E p \in Manual : PushChanges(p, ExportOutcomes)

SpecTrigger == InitTrigger /\ [][NextTrigger]_vars

\* ---------------------------------------------------------------------------
\* POST /api/admin/seed-demo (main.py seed_demo_changes).

\* Number of calls of the seeding endpoint.
MaxSeedCalls == 2

\* The services named in DEMO.
DemoSlugs == {"s1"}

FAKE_OLD == <<"F1">>

fake_new == <<"F1", "F2">>

\* The two Snapshots and the Change the endpoint inserts for service s in its
\* k-th call; both snapshots are flushed in one transaction, begun at `at`.
SeedSnapshots(k, s, at) ==
    {SnapshotRow(<<"seed_old", k>>, s, tos_url(s), FAKE_OLD, at),
     SnapshotRow(<<"seed_new", k>>, s, tos_url(s), fake_new, at)}

SeedChange(k, s) ==
    [id |-> <<<<"seed", k>>, s, tos_url(s)>>,
     service_id |-> s,
     snapshot_old_id |-> <<<<"seed_old", k>>, s, tos_url(s)>>,
     snapshot_new_id |-> <<<<"seed_new", k>>, s, tos_url(s)>>,
     change_type |-> "tos_update",
     severity |-> "major",
     title |-> "Demo change",
     summary |-> "Demo summary"]

\* seed_demo_changes(reset), called while no scan is running.  With reset the
\* Changes and the Snapshots of the demo services are deleted (lines 345-355;
\* the Alerts of those Changes go with them, ON DELETE CASCADE) and the
\* deletion is committed; then every demo service without a Change gets two
\* Snapshots and a Change (lines 357-414).
seed_demo_changes(reset) ==
    /\ seed_calls < MaxSeedCalls
    /\ \A p \in Procs : pc[p] \in {"idle", "raised"}
    /\ seed_calls' = seed_calls + 1
    /\ clock' = clock + 1
    /\ LET kept_changes == IF reset
                           THEN {c \in changes : c.service_id \notin DemoSlugs}
                           ELSE changes
           kept_snapshots == IF reset
                             THEN {n \in snapshots : n.service_id \notin DemoSlugs}
                             ELSE snapshots
           bare == {s \in DemoSlugs :
                      \A c \in kept_changes : c.service_id # s}
       IN /\ changes' = kept_changes
                          \cup {SeedChange(seed_calls + 1, s) : s \in bare}
          /\ snapshots' = kept_snapshots
                          \cup UNION {SeedSnapshots(seed_calls + 1, s, clock + 1) :
                                         s \in bare}
          /\ alerts' = {a \in alerts :
                          \E c \in kept_changes : c.id = a.change_id}
    /\ UNCHANGED <<scanCount, last_checked_at, scanId, services, urls_to_check,
                   localVars, chg, all_changes, faults, pc, sess, plan,
                   subscriptions, todo, subscribers, alert, resend_api_key,
                   exportVars, fetchVars, differVars, is_active, gatherVars>>

\* ---------------------------------------------------------------------------
\* fetch_page (app/scraper/fetcher.py) followed attempt by attempt.

mainVars == <<scanVars, pc, sess, alertVars, is_active, gatherVars>>

\* Largest `retries` argument tried (the default, fetcher.py line 25).
MaxRetries == 3

\* Texts _extract_text may return for a response: none, one word, two words.
ExtractedTexts == {<<>>, <<"a">>, <<"a", " ", "b">>}

\* Error statuses other than 429 that raise_for_status turns into an
\* HTTPStatusError: a client error and a server error.
ErrorStatuses == {"404", "500"}

\* What one client.get + raise_for_status does: a 2xx response, a 429, another
\* error status, a timeout, a connection error, any other exception.
AttemptOutcomes ==
    {"ok", "429", "timeout", "connect", "exception"} \cup ErrorStatuses

\* A back-off that takes a server error for a rate limit too.
RateLimited_ServerErrors(code) == code \in {"429", "500"}

\* Line 65: e.response.status_code == 429.
RateLimited(code) == code = "429"

\* Line 78: f"HTTP {e.response.status_code}".
HttpError(code) ==
    CASE code = "404" -> "HTTP 404"
      [] code = "500" -> "HTTP 500"
      [] code = "429" -> "HTTP 429"

\* str(e) of the exception caught: httpx builds its transport exceptions from
\* the message of the underlying error, which is empty for a timeout.
ExceptionMessages == {"", "All connection attempts failed"}

\* Lines 55-62 (url, status_code and fetched_at left out).
FetchOk(text) ==
    [status |-> "ok", content |-> text, content_hash |-> Sha256(text),
     word_count |-> Len(Split(text))]

\* Lines 72-79, 87-94, 98-105, 107-114.
FetchError(msg) ==
    [status |-> "error", content |-> EmptyText, content_hash |-> <<>>,
     word_count |-> 0, error |-> msg]

\* A 429 wait that does not grow with the attempt.
RateLimitWait_Flat(k) == 10

\* Line 67: wait = (attempt + 1) * 10.
RateLimitWait(k) == (k + 1) * 10

\* Line 83: wait = (attempt + 1) * 5.
NetworkWait(k) == (k + 1) * 5

FetchReturn(res) ==
    /\ fetch_result' = {res}
    /\ fetch_pc' = "returned"
    /\ UNCHANGED <<attempt, waits>>

FetchSleep(seconds, cause) ==
    /\ waits' = Append(waits, [after |-> attempt + 1, seconds |-> seconds,
                               cause |-> cause])
    /\ fetch_pc' = "sleep"
    /\ UNCHANGED <<attempt, fetch_result>>

\* fetch_page(url, retries=n): enter the loop of line 42, or fall through it
\* to line 107 when range(retries) is empty.
FetchCall(n) ==
    /\ fetch_pc = "idle"
    /\ retries' = n
    /\ attempt' = 0
    /\ requests' = 0
    /\ response' = "none"
    /\ waits' = <<>>
    /\ IF n = 0
       THEN /\ fetch_result' = {FetchError("Max retries exceeded")}
            /\ fetch_pc' = "returned"
       ELSE /\ fetch_result' = {}
            /\ fetch_pc' = "request"
    /\ UNCHANGED <<mainVars, exportVars, seed_calls, differVars>>

\* Lines 43-105: one pass of the loop body up to its return or its sleep.
FetchAttempt ==
    /\ fetch_pc = "request"
    /\ requests' = requests + 1
    /\ \E outcome \in AttemptOutcomes, text \in ExtractedTexts,
          msg \in ExceptionMessages :
        /\ response' = outcome
        /\ CASE outcome = "ok" -> FetchReturn(FetchOk(text))
             [] outcome \in {"429"} \cup ErrorStatuses ->
                   IF RateLimited(outcome)
                   THEN FetchSleep(RateLimitWait(attempt), outcome)
                   ELSE FetchReturn(FetchError(HttpError(outcome)))
             [] outcome \in {"timeout", "connect"} ->
                   IF attempt < retries - 1
                   THEN FetchSleep(NetworkWait(attempt), outcome)
                   ELSE FetchReturn(FetchError(msg))
             [] outcome = "exception" -> FetchReturn(FetchError(msg))
    /\ UNCHANGED <<mainVars, exportVars, seed_calls, differVars, retries>>

\* The sleep of line 69 or 85 ends and `continue` takes the next attempt of
\* range(retries); after the last one, lines 107-114.
FetchWake ==
    /\ fetch_pc = "sleep"
    /\ attempt' = attempt + 1
    /\ IF attempt + 1 < retries
       THEN /\ fetch_pc' = "request"
            /\ UNCHANGED fetch_result
       ELSE /\ fetch_pc' = "returned"
            /\ fetch_result' = {FetchError("Max retries exceeded")}
    /\ UNCHANGED <<mainVars, exportVars, seed_calls, differVars, retries,
                   requests, response, waits>>

\* The caller took the result; the next call may start.
FetchDone ==
    /\ fetch_pc = "returned"
    /\ fetch_pc' = "idle"
    /\ UNCHANGED <<mainVars, exportVars, seed_calls, differVars, retries, attempt,
                   requests, response, waits, fetch_result>>

NextFetch ==
    \/ \E n \in 0..MaxRetries : FetchCall(n)
    \/ FetchAttempt
    \/ FetchWake
    \/ FetchDone

\* A call in progress keeps running: the event loop resumes it after every
\* response and every sleep.
SpecFetch == Init /\ [][NextFetch]_vars /\ WF_vars(NextFetch)

\* ---------------------------------------------------------------------------
\* The timer's scans after the baseline, with the seeding endpoint called
\* between them.
NextAdmin ==
    \/ \E reset \in BOOLEAN : seed_demo_changes(reset)
    \/ \E p \in Timer : StartScan(p, NoFaults)
    \/ \E p \in Timer : FetchDocument(p, {TRUE})
    \/ \E p \in Timer : CheckDocument(p, NoFaults)
    \/ \E p \in Timer : RecordChange(p, ClassifierOutcomes)
    \/ \E p \in Timer : FinishService(p, NoFaults)
    \/ \E p \in Timer : DispatchChange(p)
    \/ \E p \in Timer : DispatchCommit(p, NoFaults)

SpecAdmin == AfterFirstScan /\ [][NextAdmin]_vars

\* ---------------------------------------------------------------------------
\* compute_diff (app/scraper/differ.py) on every pair of short texts.

\* Longest text tried.
MaxTextLen == 3

Alphabet == {"a", "b", " "}

Texts == UNION {[1..n -> Alphabet] : n \in 0..MaxTextLen}

InitDiff ==
    /\ ScanInit
    /\ sales_agent_data_dir = FALSE
    /\ product_changes = <<>>
    /\ not_found = {}
    /\ NoGather
    /\ seed_calls = 0
    /\ NoFetch
    /\ old_text \in Texts
    /\ new_text \in Texts
    /\ diff_result = {}
    /\ is_active = SeededActive

\* diff = compute_diff(old_text, new_text)
ComputeDiff ==
    /\ diff_result = {}
    /\ diff_result' = {compute_diff(old_text, new_text)}
    /\ UNCHANGED <<mainVars, exportVars, seed_calls, fetchVars, old_text, new_text>>

NextDiff == ComputeDiff

SpecDiff == InitDiff /\ [][NextDiff]_vars

\* ---------------------------------------------------------------------------
\* The sections of compute_diff for texts of several lines.  Here a text is
\* the sequence of its lines and a line a sequence of characters.

\* Most lines of a text tried.  (Up to four lines every line of both texts is
\* within the three lines of context of unified_diff: the diff is one hunk.)
MaxLines == 3

NL == "NL"

\* A word, another word, a blank line, a line that starts with two dashes.
LineContents == {<<"a">>, <<"b">>, <<" ">>, <<"-", "-", "a">>}

LineTexts == UNION {[1..n -> LineContents] : n \in 0..MaxLines}

\* text.splitlines(keepends=True) of the lines joined by "\n": every line but
\* the last keeps its line end.
splitlines(t) ==
    [i \in 1..Len(t) |-> IF i < Len(t) THEN Append(t[i], NL) ELSE t[i]]

\* find_longest_match over lines: as LongestMatch, the size counted in lines.
LongestLineMatch(a, b, alo, ahi, blo, bhi) ==
    LET starts == {c \in (alo..ahi) \X (blo..bhi) : a[c[1]] = b[c[2]]}
        size(c) == RunFrom(a, b, c[1], c[2], ahi, bhi)
    IN {c \in starts :
          \A d \in starts :
             \/ size(c) > size(d)
             \/ /\ size(c) = size(d)
                /\ \/ c[1] < d[1]
                   \/ c[1] = d[1] /\ c[2] <= d[2]}

\* The lines of one hunk of difflib.unified_diff for a[alo..ahi] and
\* b[blo..bhi], each with its kind: between two matching blocks the lines of
\* a as "-" lines, then those of b as "+" lines; a matching block as context
\* lines.
RECURSIVE HunkLines(_, _, _, _, _, _)
HunkLines(a, b, alo, ahi, blo, bhi) ==
    LET found == LongestLineMatch(a, b, alo, ahi, blo, bhi)
    IN IF found = {}
       THEN [i \in 1..(ahi - alo + 1) |-> [tag |-> "-", text |-> a[alo + i - 1]]]
            \o [j \in 1..(bhi - blo + 1) |-> [tag |-> "+", text |-> b[blo + j - 1]]]
       ELSE LET c == CHOOSE x \in found : TRUE
                k == RunFrom(a, b, c[1], c[2], ahi, bhi)
            IN HunkLines(a, b, alo, c[1] - 1, blo, c[2] - 1)
               \o [i \in 1..k |-> [tag |-> " ", text |-> a[c[1] + i - 1]]]
               \o HunkLines(a, b, c[1] + k, ahi, c[2] + k, bhi)

\* difflib.unified_diff(old_lines, new_lines, fromfile=..., tofile=...,
\* lineterm=""): nothing for equal inputs; else the two file headers, the
\* hunk header and the lines of the hunk.  ("P" and "C" stand for the file
\* names, "@@" for the whole hunk header.)
unified_diff(a, b) ==
    IF a = b THEN <<>>
    ELSE <<[tag |-> "from", text |-> <<"-", "-", "-", " ", "P">>],
           [tag |-> "to", text |-> <<"+", "+", "+", " ", "C">>],
           [tag |-> "@@", text |-> <<"@", "@">>]>>
         \o HunkLines(a, b, 1, Len(a), 1, Len(b))

\* The string of a diff line: the lines of the hunk carry their one-character
\* prefix.
DiffLineString(l) ==
    IF l.tag \in {"-", "+", " "} THEN <<l.tag>> \o l.text ELSE l.text

\* str.startswith
StartsWith(s, prefix) ==
    Len(s) >= Len(prefix) /\ SubSeq(s, 1, Len(prefix)) = prefix

\* str.strip() of a line: blanks and line ends go.
RECURSIVE StripLine(_)
StripLine(t) ==
    IF t = <<>> THEN t
    ELSE IF Head(t) \in {" ", NL} THEN StripLine(Tail(t))
    ELSE IF t[Len(t)] \in {" ", NL} THEN StripLine(SubSeq(t, 1, Len(t) - 1))
    ELSE t

\* _make_section (heading left out); "\n".join(lines) is kept as the sequence
\* of the lines.
make_section(removed, added) ==
    IF removed # <<>> /\ added = <<>>
    THEN [old_text |-> removed, new_text |-> <<>>, change_type |-> "removed"]
    ELSE IF added # <<>> /\ removed = <<>>
    THEN [old_text |-> <<>>, new_text |-> added, change_type |-> "added"]
    ELSE [old_text |-> removed, new_text |-> added, change_type |-> "modified"]

\* Lines 107-110, 128-131, 139-140: flush the accumulated lines, if any.
FlushSection(sections, removed, added) ==
    IF removed # <<>> \/ added # <<>>
    THEN Append(sections, make_section(removed, added))
    ELSE sections

\* The loop of _parse_diff_sections (lines 99-136) over the diff lines left,
\* and the final flush (139-140).
RECURSIVE parse_from(_, _, _, _)
parse_from(lines, sections, removed, added) ==
    IF lines = <<>> THEN FlushSection(sections, removed, added)
    ELSE LET line == Head(lines)
             rest == Tail(lines)
         IN IF StartsWith(line, <<"-", "-", "-">>)
               \/ StartsWith(line, <<"+", "+", "+">>)
            THEN parse_from(rest, sections, removed, added)
            ELSE IF StartsWith(line, <<"@", "@">>)
            THEN parse_from(rest, FlushSection(sections, removed, added),
                            <<>>, <<>>)
            ELSE IF StartsWith(line, <<"-">>)
            THEN parse_from(rest, sections,
                            IF StripLine(Tail(line)) # <<>>
                            THEN Append(removed, StripLine(Tail(line)))
                            ELSE removed,
                            added)
            ELSE IF StartsWith(line, <<"+">>)
            THEN parse_from(rest, sections, removed,
                            IF StripLine(Tail(line)) # <<>>
                            THEN Append(added, StripLine(Tail(line)))
                            ELSE added)
            ELSE parse_from(rest, FlushSection(sections, removed, added),
                            <<>>, <<>>)

\* _parse_diff_sections(diff_lines, ...) on the strings of the diff.
parse_diff_sections(diff_lines) ==
    parse_from([i \in 1..Len(diff_lines) |-> DiffLineString(diff_lines[i])],
               <<>>, <<>>, <<>>)

\* compute_diff lines 44-66 and 77-85 for two texts given by their lines: the
\* diff lines, the sections parsed from them and their count.
diff_by_lines(old, new) ==
    LET diff_lines == unified_diff(splitlines(old), splitlines(new))
    IN [has_changes |-> diff_lines # <<>>,
        diff_lines |-> diff_lines,
        sections |-> parse_diff_sections(diff_lines),
        sections_changed |-> Len(parse_diff_sections(diff_lines))]

InitLines ==
    /\ ScanInit
    /\ sales_agent_data_dir = FALSE
    /\ product_changes = <<>>
    /\ not_found = {}
    /\ NoGather
    /\ seed_calls = 0
    /\ NoFetch
    /\ old_text \in LineTexts
    /\ new_text \in LineTexts
    /\ diff_result = {}
    /\ is_active = SeededActive

\* diff = compute_diff(old_text, new_text), the texts given by their lines.
DiffByLines ==
    /\ diff_result = {}
    /\ diff_result' = {diff_by_lines(old_text, new_text)}
    /\ UNCHANGED <<mainVars, exportVars, seed_calls, fetchVars, old_text, new_text>>

NextLines == DiffByLines

SpecLines == InitLines /\ [][NextLines]_vars

\* ---------------------------------------------------------------------------
\* fetch_multiple (app/scraper/fetcher.py 156-166): one task per URL of the
\* list, run by the event loop in any interleaving; asyncio.gather waits for
\* all of them.

\* Longest URL list and largest permit pool tried.
MaxUrls == 3
MaxConcurrent == 2

\* The places of a URL list.
Places == 1..MaxUrls

UrlLists == UNION {[1..n -> Urls] : n \in 0..MaxUrls}

\* fetch_page returns a result dict whatever the request meets.
PageStatuses == {"ok", "error"}

\* The call has created the semaphore (line 158) and gather has wrapped
\* every _limited_fetch(url) in a task (line 166); none has run yet.
InitGather ==
    /\ ScanInit
    /\ sales_agent_data_dir = FALSE
    /\ product_changes = <<>>
    /\ not_found = {}
    /\ seed_calls = 0
    /\ NoFetch
    /\ old_text = <<>>
    /\ new_text = <<>>
    /\ diff_result = {}
    /\ is_active = SeededActive
    /\ urls \in UrlLists
    /\ max_concurrent \in 1..MaxConcurrent
    /\ semaphore = max_concurrent
    /\ task = [i \in 1..Len(urls) |-> "created"]
    /\ fetch_calls = [i \in 1..Len(urls) |-> 0]
    /\ task_result = [i \in 1..Len(urls) |-> {}]
    /\ gathered = {}

gatherFrame == <<scanVars, pc, sess, alertVars, is_active, exportVars,
                 seed_calls, fetchVars, differVars, urls, max_concurrent>>

\* A pause that gives the permit back before it starts.
FetchReturns_ReleaseEarly(i) ==
    /\ i <= Len(urls)
    /\ task[i] = "fetching"
    /\ \E status \in PageStatuses :
          task_result' = [task_result EXCEPT
                             ![i] = {[url |-> urls[i], status |-> status]}]
    /\ task' = [task EXCEPT ![i] = "pausing"]
    /\ semaphore' = semaphore + 1
    /\ UNCHANGED <<gatherFrame, fetch_calls, gathered>>

\* Lines 161-162: `async with semaphore` takes a permit when one is left (a
\* task that finds none waits until a release wakes it), and the task calls
\* fetch_page(url).
AcquireAndFetch(i) ==
    /\ i <= Len(urls)
    /\ task[i] = "created"
    /\ semaphore > 0
    /\ semaphore' = semaphore - 1
    /\ task' = [task EXCEPT ![i] = "fetching"]
    /\ fetch_calls' = [fetch_calls EXCEPT ![i] = @ + 1]
    /\ UNCHANGED <<gatherFrame, task_result, gathered>>

\* Lines 162-163: fetch_page returns; the task keeps its permit and sleeps
\* one second.
FetchReturns(i) ==
    /\ i <= Len(urls)
    /\ task[i] = "fetching"
    /\ \E status \in PageStatuses :
          task_result' = [task_result EXCEPT
                             ![i] = {[url |-> urls[i], status |-> status]}]
    /\ task' = [task EXCEPT ![i] = "pausing"]
    /\ UNCHANGED <<gatherFrame, semaphore, fetch_calls, gathered>>

\* Lines 163-164: the sleep is over; `return result` leaves the
\* `async with` block, which releases the permit, and the task is done.
PauseOver(i) ==
    /\ i <= Len(urls)
    /\ task[i] = "pausing"
    /\ task' = [task EXCEPT ![i] = "done"]
    /\ semaphore' = semaphore + 1
    /\ UNCHANGED <<gatherFrame, fetch_calls, task_result, gathered>>

\* Line 166: every task is done; gather returns their results in the order
\* of its arguments.
GatherReturns ==
    /\ gathered = {}
    /\ \A i \in 1..Len(urls) : task[i] = "done"
    /\ gathered' = {[i \in 1..Len(urls) |-> CHOOSE r \in task_result[i] : TRUE]}
    /\ UNCHANGED <<gatherFrame, semaphore, task, fetch_calls, task_result>>

NextGather ==
    \/ \E i \in Places : AcquireAndFetch(i)
    \/ \E i \in Places : FetchReturns(i)
    \/ \E i \in Places : PauseOver(i)
    \/ GatherReturns

\* The event loop runs every task that is ready: a fetch_page call returns
\* (its attempts are bounded), a sleep ends, a released permit wakes a waiter.
SpecGather == InitGather /\ [][NextGather]_vars /\ WF_vars(NextGather)

\* ---------------------------------------------------------------------------
\* The whole of run_full_scan after the baseline, with the row without URLs
\* active: fetches fail, steps of the per-document block raise, storage
\* fails in a service's transaction and at the dispatcher's commit, and the
\* change-feed export is configured or not.
AllActive == [s \in Services |-> TRUE]

InitPipeline ==
    /\ FirstScanDone
    /\ is_active = AllActive
    /\ sales_agent_data_dir \in BOOLEAN

NextPipeline ==
    \/ \E p \in Timer : StartScan(p, FaultKinds)
    \/ \E p \in Timer : FetchDocument(p, BOOLEAN)
    \/ \E p \in Timer : CheckDocument(p, FaultKinds)
    \/ \E p \in Timer : RecordChange(p, ClassifierOutcomes)
    \/ \E p \in Timer : FinishService(p, FaultKinds)
    \/ \E p \in Timer : DispatchChange(p)
    \/ \E p \in Timer : DispatchCommit(p, FaultKinds)
    \/ \E p \in Timer : PushChanges(p, ExportOutcomes)

SpecPipeline == InitPipeline /\ [][NextPipeline]_vars

\* ---------------------------------------------------------------------------
\* The same scans with a change feed that earlier scans filled: empty, one
\* entry short of the limit, or full.  The feed file is readable and writable.
PastFeed(n) == [i \in 1..n |-> <<<<"timer", i - n>>, "s1", "u1">>]

FeedSizes == {0, FeedLimit - 1, FeedLimit}

FeedOutcomes == {"written", "service_missing"}

InitFeed ==
    /\ FirstScanState
    /\ NothingUnderWay
    /\ is_active = AllActive
    /\ sales_agent_data_dir \in BOOLEAN
    /\ product_changes \in {PastFeed(n) : n \in FeedSizes}

NextFeed ==
    \/ \E p \in Timer : StartScan(p, FaultKinds)
    \/ \E p \in Timer : FetchDocument(p, BOOLEAN)
    \/ \E p \in Timer : CheckDocument(p, FaultKinds)
    \/ \E p \in Timer : RecordChange(p, ClassifierOutcomes)
    \/ \E p \in Timer : FinishService(p, FaultKinds)
    \/ \E p \in Timer : DispatchChange(p)
    \/ \E p \in Timer : DispatchCommit(p, FaultKinds)
    \/ \E p \in Timer : PushChanges(p, FeedOutcomes)

SpecFeed == InitFeed /\ [][NextFeed]_vars

\* ===========================================================================
\* Properties.

\* C1: in check_service, when the fetch of a document succeeded and no snapshot
\* exists yet for its (service, url) pair, the step that stores the fetched
\* snapshot adds it to the service's transaction as the baseline, whatever its
\* content, creates no Change and reaches neither the differ nor the
\* classifier.
C1_FirstSnapshotIsBaseline ==
    [][\A p \in Procs :
        (/\ pc[p] = "compare"
         /\ pc'[p] # "compare"
         /\ ~sess'[p].failed
         /\ \A s \in snapshots \cup sess[p].snaps :
               ~(s.service_id = Head(services[p])
                 /\ s.url = Head(urls_to_check[p]).url))
        => /\ \E s \in sess'[p].snaps \ sess[p].snaps :
                /\ s.service_id = Head(services[p])
                /\ s.url = Head(urls_to_check[p]).url
                /\ s.content = result[p].content
                /\ new_snapshot'[p] = {s}
                /\ sess'[p].snaps = sess[p].snaps \cup {s}
           /\ prev_snapshot'[p] = {}
           /\ sess'[p].changes = sess[p].changes
           /\ chg'[p] = chg[p]
           /\ diff'[p] = {}
           /\ summary'[p] = summary[p]
           /\ pc'[p] # "summarize"]_vars

\* A first snapshot whose content is not the text the pages started with has
\* been stored, and the service's transaction holds no Change.
C1_Witness ==
    \E p \in Procs :
        /\ pc[p] = "update"
        /\ prev_snapshot[p] = {}
        /\ \E s \in new_snapshot[p] :
              s.content = <<"B1", "S2">> /\ s \in sess[p].snaps
        /\ sess[p].changes = {}
        /\ summary[p] = {}

\* C2: in every reachable state, every Change references an old and a new
\* snapshot of the Change's own service and of one document URL, and the old
\* snapshot's fetched_at is strictly earlier than the new one's.
C2_ChangeLinksOrderedSnapshots ==
    \A c \in changes :
        \E o \in snapshots, n \in snapshots :
            /\ o.id = c.snapshot_old_id
            /\ n.id = c.snapshot_new_id
            /\ o.service_id = c.service_id
            /\ n.service_id = c.service_id
            /\ o.url = n.url
            /\ o.fetched_at < n.fetched_at

\* C3: within one (service, url) pair every Change references two snapshots
\* adjacent in fetch-time order: none reverses the order, skips a snapshot
\* fetched in between, or shares its old snapshot with another Change; for
\* every interleaving of the timer's and the manual trigger's scans.
C3_ChangeLinksAdjacentSnapshots ==
    /\ \A c \in changes :
          \E o \in snapshots, n \in snapshots :
              /\ o.id = c.snapshot_old_id
              /\ n.id = c.snapshot_new_id
              /\ o.fetched_at < n.fetched_at
              /\ ~\E m \in snapshots :
                    /\ m.service_id = o.service_id
                    /\ m.url = o.url
                    /\ o.fetched_at < m.fetched_at
                    /\ m.fetched_at < n.fetched_at
    /\ \A c1 \in changes, c2 \in changes :
          c1.snapshot_old_id = c2.snapshot_old_id => c1 = c2

\* C4: when a fetched document's fingerprint equals that of the latest
\* snapshot of its (service, url) pair, the step stores exactly one new
\* snapshot, with that same fingerprint, creates no Change and runs neither
\* the differ nor the classifier.
C4_UnchangedContentNoChange ==
    [][\A p \in Procs :
        LET known == {s \in snapshots \cup sess[p].snaps :
                         /\ s.service_id = Head(services[p])
                         /\ s.url = Head(urls_to_check[p]).url}
            latest == {s \in known : \A o \in known : o.fetched_at <= s.fetched_at}
        IN (/\ pc[p] = "compare"
            /\ pc'[p] # "compare"
            /\ ~sess'[p].failed
            /\ latest # {}
            /\ \A o \in latest : o.content_hash = result[p].content_hash)
           => /\ \E s \in sess'[p].snaps \ sess[p].snaps :
                   /\ sess'[p].snaps = sess[p].snaps \cup {s}
                   /\ new_snapshot'[p] = {s}
                   /\ \A o \in latest : s.content_hash = o.content_hash
              /\ sess'[p].changes = sess[p].changes
              /\ chg'[p] = chg[p]
              /\ diff'[p] = {}
              /\ summary'[p] = summary[p]
              /\ pc'[p] # "summarize"]_vars

\* A rescan stored a second snapshot with the fingerprint of the previous one;
\* the differ did not run and the transaction holds no Change.
C4_Witness ==
    \E p \in Procs :
        /\ pc[p] \in {"fetch", "update"}
        /\ diff[p] = {}
        /\ sess[p].changes = {}
        /\ \E o \in prev_snapshot[p], n \in new_snapshot[p] :
              /\ o.id # n.id
              /\ o.content_hash = n.content_hash
              /\ o \in snapshots
              /\ n \in sess[p].snaps

\* C5: when the differ ran on two different texts and reported a similarity
\* ratio strictly above 0.995, the step creates no Change and does not reach
\* the classifier, and the new snapshot is stored all the same; with a ratio
\* of exactly 0.995 or below the classifier is called and the Change is
\* created.
C5_TrivialityGate ==
    [][\A p \in Procs :
        /\ (/\ pc[p] = "compare"
            /\ pc'[p] # "compare"
            /\ ~sess'[p].failed
            /\ diff'[p] # {})
           => \A d \in diff'[p] :
                d.has_changes =>
                  IF d.similarity_ratio[1] * 1000 > 995 * d.similarity_ratio[2]
                  THEN /\ pc'[p] # "summarize"
                       /\ sess'[p].changes = sess[p].changes
                       /\ chg'[p] = chg[p]
                       /\ summary'[p] = summary[p]
                       /\ new_snapshot'[p] # {}
                       /\ new_snapshot'[p] \subseteq sess'[p].snaps \ sess[p].snaps
                  ELSE pc'[p] = "summarize"
        /\ (pc[p] = "summarize" /\ pc'[p] # "summarize")
           => \E c \in sess'[p].changes \ sess[p].changes :
                /\ sess'[p].changes = sess[p].changes \cup {c}
                /\ chg'[p] = Append(chg[p], c)
                /\ \E o \in prev_snapshot[p], n \in new_snapshot[p] :
                      c.snapshot_old_id = o.id /\ c.snapshot_new_id = n.id]_vars

\* A near-duplicate (ratio above 0.995) was suppressed after its snapshot was
\* stored, in a run where a Change with ratio exactly 0.995 was committed.
C5_Witness ==
    \E p \in Procs :
        /\ pc[p] = "update"
        /\ sess[p].changes = {}
        /\ \E d \in diff[p] :
              /\ d.has_changes
              /\ d.similarity_ratio[1] * 1000 > 995 * d.similarity_ratio[2]
        /\ new_snapshot[p] # {}
        /\ new_snapshot[p] \subseteq sess[p].snaps
        /\ \E c \in changes, o \in snapshots, n \in snapshots :
              /\ o.id = c.snapshot_old_id
              /\ n.id = c.snapshot_new_id
              /\ 2 * MatchSize(o.content, n.content) * 1000
                    = 995 * (TextLen(o.content) + TextLen(n.content))

\* C6: for a service with two document URLs of which one fetch succeeded and
\* the other returned an error result, the end of check_service commits
\* exactly one new snapshot (that of the fetched URL), updates the service's
\* last_checked_at, commits the service's Changes, and the scan goes on to the
\* next service with a fresh session.
C6_FailedFetchIsContained ==
    [][\A p \in Procs :
        (/\ pc[p] = "update"
         /\ services'[p] # services[p]
         /\ fetched[p] \in {<<"ok", "error">>, <<"error", "ok">>}
         /\ ~sess[p].failed
         /\ faults' = faults)
        => /\ Cardinality(snapshots' \ snapshots) = 1
           /\ \A s \in snapshots' \ snapshots :
                 /\ s.service_id = Head(services[p])
                 /\ s.url = UrlsOf(Head(services[p]))
                               [IF fetched[p][1] = "ok" THEN 1 ELSE 2].url
           /\ last_checked_at'[Head(services[p])]
                 > last_checked_at[Head(services[p])]
           /\ changes' = changes \cup sess[p].changes
           /\ services'[p] = Tail(services[p])
           /\ sess'[p] = NewSession
           /\ services'[p] # <<>> => pc'[p] \in {"fetch", "update"}]_vars

\* The first scan committed s1 with one snapshot only, without any injected
\* failure, and is now working on s2.
C6_Witness ==
    \E p \in Procs :
        /\ scanId[p] = <<"timer", 1>>
        /\ services[p] = <<"s2">>
        /\ faults = 0
        /\ last_checked_at["s1"] > 0
        /\ Cardinality({s \in snapshots : s.service_id = "s1"}) = 1

\* C7: each service is processed in a transaction of its own: when processing
\* or committing it raises, none of its snapshots, Changes or last_checked_at
\* of this scan reach the committed tables (nor the scan's result); rows
\* committed earlier stay; the scan enters the next service with a fresh
\* session.  The committed tables change only at a successful commit, by
\* exactly the rows of the committing session.
C7_TargetTransactionIsolation ==
    [][/\ snapshots \subseteq snapshots'
       /\ changes \subseteq changes'
       /\ (snapshots' # snapshots \/ changes' # changes
              \/ last_checked_at' # last_checked_at)
          => \E p \in Procs :
                /\ pc[p] = "update"
                /\ ~sess[p].failed
                /\ faults' = faults
                /\ snapshots' = snapshots \cup sess[p].snaps
                /\ changes' = changes \cup sess[p].changes
                /\ \A s \in Services \ {Head(services[p])} :
                      last_checked_at'[s] = last_checked_at[s]
       /\ \A p \in Procs :
            (/\ pc[p] = "update"
             /\ services'[p] # services[p]
             /\ (sess[p].failed \/ faults' # faults))
            => /\ snapshots' = snapshots
               /\ changes' = changes
               /\ last_checked_at' = last_checked_at
               /\ all_changes'[p] = all_changes[p]
               /\ services'[p] = Tail(services[p])
               /\ sess'[p] = NewSession
               /\ services'[p] # <<>> => pc'[p] \in {"fetch", "update"}]_vars

\* In the second scan s1 was rolled back (nothing of it committed in this
\* scan) and s2, processed after it, committed; the first scan's rows of s1
\* are still there.
C7_Witness ==
    /\ faults = 1
    /\ \E p \in Procs :
          /\ scanId[p] = <<"timer", 2>>
          /\ \E s \in snapshots : s.id[1] = scanId[p] /\ s.service_id = "s2"
          /\ \A s \in snapshots : ~(s.id[1] = scanId[p] /\ s.service_id = "s1")
          /\ \E s \in snapshots : s.id[1] = <<"timer", 1>> /\ s.service_id = "s1"
          /\ last_checked_at["s1"] < last_checked_at["s2"]
          /\ Cardinality({s \in snapshots : s.id[1] = <<"timer", 1>>}) = 3

\* C8: when the dispatcher handles a subscriber whose plan, as the dispatching
\* session holds it, grants no real-time alerts (FREE, or a plan outside the
\* limits table), the step creates no Alert and starts no send, whatever the
\* subscription's notify_email, notify_webhook and webhook_url are.
C8_NoRealtimeNoAlerts ==
    [][\A p \in Procs :
        pc[p] = "subscriber" =>
          LET sub == Head(subscribers[p])
              held == {r \in sess[p].users : r.id = sub.user_id}
              seen == IF held = {} THEN plan[sub.user_id]
                      ELSE (CHOOSE r \in held : TRUE).plan
          IN seen \notin {"pro", "business"}
             => /\ sess'[p].alerts = sess[p].alerts
                /\ pc'[p] \notin {"email_send", "webhook_send"}
                /\ alert'[p] = {}]_vars

\* The pass ended without any Alert although a subscriber on the FREE plan
\* asked for email and webhook and has a webhook_url.
C8_Witness ==
    \E p \in Procs :
        /\ pc[p] = "alerts_commit"
        /\ sess[p].alerts = {}
        /\ \E sub \in subscriptions :
              /\ sub.notify_email
              /\ sub.notify_webhook
              /\ sub.webhook_url # NoUrl
              /\ \E r \in sess[p].users : r.id = sub.user_id /\ r.plan = "free"

C11_DeliveryFailureIsolated ==
    [][\A p \in Procs :
        /\ \A a \in sess'[p].alerts :
              (/\ a.status = "failed"
               /\ \E b \in sess[p].alerts : b.id = a.id /\ b.status = "pending")
              => LET sub == Head(subscribers[p])
                     business == \E r \in sess'[p].users :
                                     r.id = sub.user_id /\ r.plan = "business"
                     webhook == /\ a.channel = "email"
                                /\ sub.notify_webhook
                                /\ sub.webhook_url # NoUrl
                                /\ business
                 IN /\ alert[p] = {a.id}
                    /\ \A b \in sess[p].alerts : b.id # a.id => b \in sess'[p].alerts
                    /\ alerts' = alerts
                    /\ IF webhook
                       THEN /\ pc'[p] = "webhook_send"
                            /\ \E w \in sess'[p].alerts :
                                  /\ alert'[p] = {w.id}
                                  /\ w.id # a.id
                                  /\ w.channel = "webhook"
                                  /\ w.user_id = a.user_id
                                  /\ w.change_id = a.change_id
                            /\ subscribers'[p] = subscribers[p]
                            /\ todo'[p] = todo[p]
                       ELSE IF Len(subscribers[p]) > 1
                       THEN /\ pc'[p] = "subscriber"
                            /\ subscribers'[p] = Tail(subscribers[p])
                            /\ todo'[p] = todo[p]
                       ELSE /\ todo'[p] = Tail(todo[p])
                            /\ pc'[p] = IF Len(todo[p]) > 1 THEN "alerts"
                                        ELSE "alerts_commit"
        /\ \A id \in alert'[p] :
              \E a \in sess'[p].alerts : a.id = id /\ a.status = "pending"
        /\ (pc[p] # "alerts_commit" /\ pc'[p] = "alerts_commit")
           => \A i \in 1..Len(all_changes[p]) :
                \A sub \in subscriptions :
                  sub.service_id = all_changes[p][i].service_id
                  => LET held == {r \in sess'[p].users : r.id = sub.user_id}
                         mine == {a \in sess'[p].alerts :
                                     /\ a.user_id = sub.user_id
                                     /\ a.change_id = all_changes[p][i].id}
                     IN /\ held # {}
                        /\ \A r \in held :
                              /\ (r.plan \in {"pro", "business"} /\ sub.notify_email)
                                 => \E a \in mine : a.channel = "email"
                              /\ (/\ r.plan = "business"
                                  /\ sub.notify_webhook
                                  /\ sub.webhook_url # NoUrl)
                                 => \E a \in mine : a.channel = "webhook"]_vars

\* The pass ended: an email Alert FAILED, the webhook Alert of the same
\* subscriber and Change exists, and an Alert created later belongs to another
\* subscriber or to a later Change.
C11_Witness ==
    \E p \in Procs :
        /\ pc[p] = "alerts_commit"
        /\ \E a, w, c \in sess[p].alerts :
              /\ a.channel = "email"
              /\ a.status = "failed"
              /\ w.channel = "webhook"
              /\ w.user_id = a.user_id
              /\ w.change_id = a.change_id
              /\ c.id[2] > a.id[2]
              /\ c.user_id # a.user_id
              /\ \E d \in sess[p].alerts :
                    d.id[2] > a.id[2] /\ d.change_id # a.change_id

\* C12: fetch_page never raises; what it returns is either an "ok" result
\* with the content, the SHA-256 of that content and its word count, or an
\* "error" result with empty content, empty content_hash, word_count 0 and a
\* non-empty error description.
C12_FetchResultShape ==
    /\ fetch_pc \in {"idle", "request", "sleep", "returned"}
    /\ fetch_pc = "returned" => fetch_result # {}
    /\ \A r \in fetch_result :
          \/ /\ r.status = "ok"
             /\ r.content_hash = <<"sha256">> \o r.content
             /\ r.word_count = Len(Split(r.content))
          \/ /\ r.status = "error"
             /\ r.content = <<>>
             /\ r.content_hash = <<>>
             /\ r.word_count = 0
             /\ r.error # ""

\* C13: fetch_page issues at most `retries` requests; the request that
\* follows the k-th attempt comes after a sleep of k x 10 seconds when that
\* attempt met a 429 and of k x 5 seconds when it met a timeout or a
\* connection error; when the last attempt fails the call returns an error
\* result; and every call returns.
C13_BoundedRetriesLinearBackoff ==
    /\ [](requests <= retries)
    /\ [][/\ requests' = requests + 1 /\ requests >= 1
            => /\ Len(waits) = requests
               /\ waits[requests].after = requests
               /\ response \in {"429", "timeout", "connect"}
               /\ waits[requests].cause = response
               /\ waits[requests].seconds =
                     IF response = "429" THEN requests * 10 ELSE requests * 5
          /\ (fetch_pc # "returned" /\ fetch_pc' = "returned")
            => \A r \in fetch_result' :
                  /\ r.status = "ok" <=> response' = "ok"
                  /\ response' # "ok" => r.status = "error"
                  /\ response' = "429"
                     => requests' = retries /\ r.error = "Max retries exceeded"
          /\ (/\ requests' = requests + 1
              /\ requests' = retries
              /\ response' \in {"timeout", "connect"})
            => fetch_pc' = "returned"
          /\ (fetch_pc = "sleep" /\ requests = retries)
            => fetch_pc' = "returned"]_vars
    /\ (fetch_pc = "request") ~> (fetch_pc = "returned")

\* A call with three attempts met a 429, then a timeout, then a 429 again,
\* slept 10 and 10 seconds before its retries, and returned an error.
C13_Witness ==
    /\ fetch_pc = "returned"
    /\ retries = 3
    /\ requests = 3
    /\ Len(waits) = 3
    /\ waits[1].cause = "429" /\ waits[1].seconds = 10
    /\ waits[2].cause = "timeout" /\ waits[2].seconds = 10
    /\ waits[3].cause = "429"
    /\ \A r \in fetch_result : r.status = "error"

\* C14: the classifier's reply never costs the Change.  The summary is the
\* fallback (title "<service name> policy updated", severity minor) when the
\* call fails or no provider is configured; otherwise its severity is the
\* reply's value when that is one of critical, major, minor, patch and minor
\* when it is missing or unrecognized; the Change built from it carries that
\* severity and title; and with no storage fault the service's commit
\* persists every Change recorded for it.
C14_ClassifierNeverLosesChange ==
    [][/\ \A r \in ClassifierResponses :
            LET sm == summarize_change("s1", r)
            IN /\ sm.severity \in {"critical", "major", "minor", "patch"}
               /\ r.kind # "json"
                  => /\ sm.title = "s1 policy updated"
                     /\ sm.severity = "minor"
               /\ (r.kind = "json" /\ ~sm.fallback)
                  => sm.severity =
                        IF r.severity \in {"critical", "major", "minor", "patch"}
                        THEN r.severity
                        ELSE IF r.severity = "MAJOR" THEN "major" ELSE "minor"
       /\ \A p \in Procs :
            /\ (pc[p] = "summarize" /\ pc'[p] # "summarize")
               => \E c \in sess'[p].changes \ sess[p].changes :
                     /\ c.severity \in {"critical", "major", "minor", "patch"}
                     /\ \A sm \in summary'[p] :
                           c.severity = sm.severity /\ c.title = sm.title
                     /\ chg'[p] = Append(chg[p], c)
            /\ (pc[p] = "update" /\ pc'[p] # "update")
               => sess[p].changes \subseteq changes']_vars

\* C15: whatever the change-feed export meets, the step that ends it leaves
\* the committed Snapshots, Changes and Alerts as they are and run_full_scan
\* returns to its caller, with the list of the Changes it created.
C15_ExportFailureContained ==
    [][\A p \in Procs :
        (pc[p] = "export" /\ pc'[p] # "export")
        => /\ snapshots' = snapshots
           /\ changes' = changes
           /\ alerts' = alerts
           /\ pc'[p] = "idle"
           /\ all_changes'[p] = all_changes[p]
           /\ all_changes[p] # <<>>]_vars

\* C16: once the scan run by POST /api/admin/scan is over, the endpoint
\* answers 200 with a change count, possibly zero; no scan ends in an
\* exception that reaches the HTTP caller.
C16_ManualTriggerAlwaysCount ==
    /\ pc["manual"] # "raised"
    /\ \A r \in trigger_scan("manual") :
          /\ r.status_code = 200
          /\ r.changes_detected \in 0..Cardinality(changes)

C19_SimilaritySymmetric ==
    \A d \in diff_result :
        old_text # new_text
        => LET r == d.similarity_ratio
               back == compute_diff(new_text, old_text).similarity_ratio
           IN /\ r[1] * back[2] = back[1] * r[2]
              /\ (r[1] * 1000 > 995 * r[2]) <=> (back[1] * 1000 > 995 * back[2])

\* C20: for texts A # B, words_added is the number of distinct
\* blank-separated words of B that are not words of A and words_removed the
\* number of those of A that are not words of B, whatever their positions
\* and counts; words_added of compute_diff(A, B) is words_removed of
\* compute_diff(B, A).
C20_WordDeltasAreSetDifferences ==
    \A d \in diff_result :
        old_text # new_text
        => LET IsWord(t, i, j) ==
                   /\ i <= j
                   /\ \A k \in i..j : t[k] # " "
                   /\ i = 1 \/ t[i - 1] = " "
                   /\ j = Len(t) \/ t[j + 1] = " "
               Words(t) == {SubSeq(t, i, j) : <<i, j>> \in
                              {x \in (1..Len(t)) \X (1..Len(t)) :
                                  IsWord(t, x[1], x[2])}}
               back == compute_diff(new_text, old_text)
           IN /\ d.words_added = Cardinality(Words(new_text) \ Words(old_text))
              /\ d.words_removed = Cardinality(Words(old_text) \ Words(new_text))
              /\ d.words_added = back.words_removed
              /\ d.words_removed = back.words_added

\* compute_diff ran on "a a" and "b a": the repeated word counts once, one
\* word was added and none removed.
C20_Witness ==
    /\ old_text = <<"a", " ", "a">>
    /\ new_text = <<"b", " ", "a">>
    /\ \E d \in diff_result : d.words_added = 1 /\ d.words_removed = 0

\* C17: no step of the program deletes or modifies a committed Snapshot or
\* Change: every row of the two tables is still there, as it was, after the
\* step.
C17_SnapshotsAndChangesAppendOnly ==
    [][/\ \A n \in snapshots : n \in snapshots'
       /\ \A c \in changes : c \in changes']_vars

\* C21: check_service sets the service's last_checked_at once per call, in
\* the step after its loop, when every document URL has been handled (one
\* fetch per URL, none left), whatever the fetches returned and whether or
\* not a step of a per-document block raised after the snapshot was stored,
\* and also for a service without URLs; no other step changes a
\* last_checked_at and no other service's value moves.  (Storage failures,
\* which abort the transaction, are not among the outcomes the statement
\* lists: the steps they hit are left out by the antecedent.)
C21_LastCheckedAfterEveryOutcome ==
    [][/\ \A p \in Procs :
            (/\ pc[p] = "update"
             /\ services'[p] # services[p]
             /\ ~sess[p].failed
             /\ faults' = faults)
            => /\ urls_to_check[p] = <<>>
               /\ Len(fetched[p]) = Len(UrlsOf(Head(services[p])))
               /\ last_checked_at'[Head(services[p])] = clock'
               /\ last_checked_at'[Head(services[p])]
                     > last_checked_at[Head(services[p])]
               /\ \A s \in Services \ {Head(services[p])} :
                     last_checked_at'[s] = last_checked_at[s]
       /\ last_checked_at' # last_checked_at
          => \E p \in Procs : pc[p] = "update" /\ services'[p] = Tail(services[p])
       /\ \A p \in Procs : pc'[p] = "update" => services'[p] # <<>>]_vars

\* The second scan has updated all three services: s1 although a step of one
\* of its per-document blocks raised, s2 although its only fetch failed (it
\* has no snapshot of this scan), s3 which has no URL.  (The dispatcher has
\* not run yet, so the one failure of the run was met in the loop; a storage
\* failure there would have kept its service from being updated.)
C21_Witness ==
    /\ faults = 1
    /\ pc["timer"] = "alerts"
    /\ scanId["timer"] = <<"timer", 2>>
    /\ last_checked_at["s1"] > 4
    /\ last_checked_at["s2"] > last_checked_at["s1"]
    /\ last_checked_at["s3"] > last_checked_at["s2"]
    /\ \E s \in snapshots : s.id[1] = <<"timer", 2>> /\ s.service_id = "s1"
    /\ \A s \in snapshots : ~(s.id[1] = <<"timer", 2>> /\ s.service_id = "s2")

\* C22: run_full_scan enters the dispatcher only from the step that ends the
\* last service of the worklist, with a batch that holds, once each, exactly
\* the Changes this scan has committed (those of a service that was rolled
\* back are in neither); with an empty batch it returns without dispatcher
\* and export; the dispatcher is not entered again in the scan; the export
\* starts only from the dispatcher's successful commit, and does start then
\* when the export directory is configured.
C22_OneDispatchThenExport ==
    [][\A p \in Procs :
        LET Dispatching == {"alerts", "subscriber", "email_send",
                            "webhook_send", "alerts_commit"}
            Scanning == {"fetch", "compare", "summarize", "update"}
            mine == {c \in changes' : c.id[1] = scanId[p]}
        IN /\ (pc[p] \notin Dispatching /\ pc'[p] \in Dispatching)
              => /\ pc[p] = "update"
                 /\ pc'[p] = "alerts"
                 /\ services'[p] = <<>>
                 /\ todo'[p] = all_changes'[p]
                 /\ {todo'[p][i] : i \in 1..Len(todo'[p])} = mine
                 /\ Len(todo'[p]) = Cardinality(mine)
                 /\ mine # {}
           /\ (pc[p] = "update" /\ services'[p] = <<>> /\ pc'[p] # "update")
              => IF mine = {}
                 THEN pc'[p] = "idle" /\ all_changes'[p] = <<>>
                 ELSE pc'[p] = "alerts"
           /\ pc[p] \in Dispatching \cup {"export"}
              => /\ pc'[p] \notin Scanning
                 /\ scanId'[p] = scanId[p]
                 /\ all_changes'[p] = all_changes[p]
           /\ pc[p] = "export" => pc'[p] \notin Dispatching
           /\ (pc[p] # "export" /\ pc'[p] = "export")
              => /\ pc[p] = "alerts_commit"
                 /\ sales_agent_data_dir
                 /\ faults' = faults
                 /\ alerts' = alerts \cup sess[p].alerts
                 /\ todo[p] = <<>>
           /\ (pc[p] = "alerts_commit" /\ pc'[p] # "alerts_commit"
                 /\ faults' = faults /\ sales_agent_data_dir)
              => pc'[p] = "export"]_vars

\* The export is about to run after the dispatcher's commit, for a scan that
\* rolled s1 back (its last_checked_at is still that of the first scan) and
\* committed one Change, of s2, which is the whole batch.
C22_Witness ==
    /\ pc["timer"] = "export"
    /\ faults = 1
    /\ last_checked_at["s1"] = 2
    /\ Len(all_changes["timer"]) = 1
    /\ all_changes["timer"][1].service_id = "s2"
    /\ all_changes["timer"][1] \in changes
    /\ \A s \in snapshots : ~(s.id[1] = <<"timer", 2>> /\ s.service_id = "s1")

\* C25: after every step, the Alerts committed and those of the dispatching
\* session hold at most one row per (change, user, channel), and an Alert
\* that exists keeps its change, its user and its channel.
C25_OneAlertPerChangeUserChannel ==
    [][\A p \in Procs :
        /\ \A a, b \in alerts' \cup sess'[p].alerts :
              (/\ a.change_id = b.change_id
               /\ a.user_id = b.user_id
               /\ a.channel = b.channel)
              => a.id = b.id
        /\ \A a \in alerts' \cup sess'[p].alerts :
              \A b \in alerts \cup sess[p].alerts :
                 a.id = b.id => /\ a.change_id = b.change_id
                                /\ a.user_id = b.user_id
                                /\ a.channel = b.channel]_vars

\* The pass ended with five Alerts: both channels for alice on the first
\* Change, email for bob on it, and both channels for alice on the second.
C25_Witness ==
    \E p \in Procs :
        /\ pc[p] = "alerts_commit"
        /\ Cardinality(sess[p].alerts) = 5
        /\ \E a, b, c, d \in sess[p].alerts :
              /\ a.channel = "email" /\ b.channel = "webhook"
              /\ a.user_id = b.user_id /\ a.change_id = b.change_id
              /\ c.channel = "email" /\ c.change_id = a.change_id
              /\ c.user_id # a.user_id
              /\ d.channel = "email" /\ d.user_id = a.user_id
              /\ d.change_id # a.change_id

\* C26: an email Alert is SENT only when a delivery request was posted to
\* the email provider and accepted; an email Alert that is FAILED carries an
\* error message.
C26_EmailSentMeansDelivered ==
    \A p \in Procs :
        \A a \in alerts \cup sess[p].alerts :
            a.channel = "email"
            => /\ a.status = "sent" => a.posted
               /\ a.status = "failed" => a.error_message # ""

\* C24: the attempt of fetch_page that meets an error status other than 429
\* ends the call at once, on whichever attempt: the result is an error
\* result whose error names that status, nothing is added to the sleeps, and
\* the call issues no request after it.
C24_ErrorStatusNotRetried ==
    [][/\ (requests' = requests + 1 /\ response' \in {"404", "500"})
          => /\ fetch_pc' = "returned"
             /\ waits' = waits
             /\ attempt' = attempt
             /\ fetch_result' # {}
             /\ \A r \in fetch_result' :
                   /\ r.status = "error"
                   /\ r.content = <<>>
                   /\ r.error = IF response' = "404" THEN "HTTP 404" ELSE "HTTP 500"
       /\ (response \in {"404", "500"} /\ fetch_pc # "idle")
          => /\ requests' = requests
             /\ waits' = waits
             /\ fetch_result' = fetch_result
             /\ fetch_pc' = "idle"]_vars

\* A call with three attempts met a timeout, slept, met a 500 on its second
\* attempt and returned the error without a third request or a second sleep.
C24_Witness ==
    /\ fetch_pc = "returned"
    /\ retries = 3
    /\ requests = 2
    /\ response = "500"
    /\ Len(waits) = 1
    /\ waits[1].cause = "timeout"
    /\ \E r \in fetch_result : r.error = "HTTP 500"

\* C23: run_full_scan raises only from its first step, the enumeration of
\* the active services; no step of the loop over the services, of the alert
\* dispatch or of the dispatcher's commit ends the scan with an exception.
\* (The steps of the change-feed export are left to C15.)
C23_OnlyEnumerationRaises ==
    [][\A p \in Procs :
        (pc[p] \notin {"raised", "export"} /\ pc'[p] = "raised")
        => /\ pc[p] = "idle"
           /\ scanCount'[p] = scanCount[p] + 1]_vars

\* C27: in compute_diff every maximal run of changed lines that no context
\* line or hunk marker separates (and that has a line that is not blank)
\* yields exactly one section, in the order of the runs: "removed" with an
\* empty new_text for removed lines only, "added" with an empty old_text for
\* added lines only, "modified" with both texts otherwise; blank changed
\* lines contribute nothing, and sections_changed is the number of sections.
C27_OneSectionPerRun ==
    \A d \in diff_result :
       LET dl == d.diff_lines
           changed(i) == dl[i].tag \in {"-", "+"}
           starts == {i \in 1..Len(dl) : changed(i) /\ (i = 1 \/ ~changed(i - 1))}
           last(i) == CHOOSE j \in i..Len(dl) :
                         /\ \A k \in i..j : changed(k)
                         /\ j = Len(dl) \/ ~changed(j + 1)
           kept(i, tag) ==
               LET run == SubSeq(dl, i, last(i))
                   of == SelectSeq(run, LAMBDA l : l.tag = tag /\ StripLine(l.text) # <<>>)
               IN [k \in 1..Len(of) |-> StripLine(of[k].text)]
           runs == {i \in starts : kept(i, "-") # <<>> \/ kept(i, "+") # <<>>}
           nth(k) == CHOOSE i \in runs : Cardinality({j \in runs : j <= i}) = k
       IN /\ d.sections_changed = Len(d.sections)
          /\ Len(d.sections) = Cardinality(runs)
          /\ \A k \in 1..Len(d.sections) :
                LET sec == d.sections[k]
                    removed == kept(nth(k), "-")
                    added == kept(nth(k), "+")
                IN /\ sec.old_text = removed
                   /\ sec.new_text = added
                   /\ sec.change_type = IF added = <<>> THEN "removed"
                                        ELSE IF removed = <<>> THEN "added"
                                        ELSE "modified"

C29_BoundedConcurrentFetch ==
    /\ [](LET inflight == {i \in 1..Len(urls) : task[i] = "fetching"}
              holding == {i \in 1..Len(urls) : task[i] \in {"fetching", "pausing"}}
          IN /\ Cardinality(inflight) <= max_concurrent
             /\ semaphore = max_concurrent - Cardinality(holding)
             /\ \A i \in 1..Len(urls) :
                   fetch_calls[i] = IF task[i] = "created" THEN 0 ELSE 1
             /\ \A list \in gathered :
                   /\ Len(list) = Len(urls)
                   /\ \A i \in 1..Len(urls) :
                         /\ list[i].url = urls[i]
                         /\ task_result[i] = {list[i]}
                         /\ fetch_calls[i] = 1)
    /\ <>(gathered # {})

\* Three URLs through a pool of two returned: the same URL twice with
\* different outcomes, each result at its URL's place.
C29_Witness ==
    /\ max_concurrent = 2
    /\ urls = <<"u1", "u2", "u1">>
    /\ gathered = {<<[url |-> "u1", status |-> "ok"],
                     [url |-> "u2", status |-> "ok"],
                     [url |-> "u1", status |-> "error"]>>}

\* C30: no substantive change is lost or duplicated: once the scan that wrote
\* the newer of two consecutive committed snapshots of one (service, url) has
\* finished, and the two differ in fingerprint with a similarity ratio of at
\* most 0.995, exactly one Change references the pair - also when a step
\* after the snapshot was persisted raised inside the per-document block.
C30_NoChangeLostOrDuplicated ==
    \A a \in snapshots, b \in snapshots :
        (/\ a.service_id = b.service_id
         /\ a.url = b.url
         /\ a.fetched_at < b.fetched_at
         /\ \A m \in snapshots :
               (m.service_id = a.service_id /\ m.url = a.url)
               => (m.fetched_at <= a.fetched_at \/ m.fetched_at >= b.fetched_at)
         /\ a.content_hash # b.content_hash
         /\ compute_diff(a.content, b.content).has_changes
         /\ ~(LET ratio == compute_diff(a.content, b.content).similarity_ratio
              IN ratio[1] * 1000 > 995 * ratio[2])
         /\ \A p \in Procs :
               scanId[p] = b.id[1] => pc[p] \in {"idle", "raised"})
        => Cardinality({c \in changes : /\ c.snapshot_old_id = a.id
                                        /\ c.snapshot_new_id = b.id}) = 1

====
